---- MODULE Spec2Model ----
(***************************************************************************)
(* A model of the physics core of the emergent-chemistry simulator:        *)
(* Atom, Electron and Bond (atom.cpp, electron.cpp), the InteractionEngine *)
(* (interaction.cpp: force field and bonding state machine), the           *)
(* Simulation integrator (simulation.cpp) and the MoleculeTracker          *)
(* (molecule.cpp).                                                         *)
(*                                                                         *)
(* Arithmetic is fixed point, in integers:                                 *)
(*   length    pm        (1 A = 100)                                       *)
(*   position  pm / PosDen                                                 *)
(*   energy    meV       (1 eV = 1000)                                     *)
(*   force     meV/A                                                       *)
(*   velocity  pm/tu / PosDen  (tu = the time unit of the eV, A, amu       *)
(*             system)                                                     *)
(*   mass      0.1 amu                                                     *)
(*   Morse alpha  0.01/A                                                   *)
(*   angles    mrad                                                        *)
(* Every float expression of the source is evaluated in the same order,    *)
(* with quotients truncated toward zero.                                   *)
(***************************************************************************)
EXTENDS Integers, Sequences, FiniteSets, TLC

\* ------------------------------------------------------------------ bounds
\* spawnAtom is called at most this many times.
MaxSpawns == 3
\* step() is called at most this many times between two clears.
MaxSteps == 11
\* The user acts (spawns, clears, moves the temperature slider) while
\* stepCount is at most this; after that the simulation only steps.
InputUntil == 1

\* ------------------------------------------------------------ arithmetic
Abs(x) == IF x < 0 THEN -x ELSE x
Max(a, b) == IF a > b THEN a ELSE b
Min(a, b) == IF a < b THEN a ELSE b
\* float division, truncated toward zero
Quot(a, b) == IF a >= 0 THEN a \div b ELSE -((-a) \div b)
\* a * b / c, truncated toward zero, without leaving 32 bits when a * b would
\* (the larger factor is split into its quotient and remainder by c)
MulDiv(a, b, c) ==
    LET s   == IF (a < 0) = (b < 0) THEN 1 ELSE -1
        big == Max(Abs(a), Abs(b))
        sml == Min(Abs(a), Abs(b))
    IN  s * ((big \div c) * sml + ((big % c) * sml) \div c)
\* ceil(n / d) for d > 0
CeilDiv(n, d) == -((-n) \div d)

RECURSIVE SqrtSearch(_, _, _)
SqrtSearch(n, lo, hi) ==
    IF lo >= hi THEN lo
    ELSE LET mid == (lo + hi + 1) \div 2
         IN  IF mid * mid <= n THEN SqrtSearch(n, mid, hi)
             ELSE SqrtSearch(n, lo, mid - 1)
\* std::sqrt on a non-negative fixed-point value: floor of the square root
ISqrt(n) == IF n <= 0 THEN 0 ELSE SqrtSearch(n, 0, Min(n, 46340))

\* positions and velocities are counted in 1/PosDen pm and pm/tu
PosDen == 100

\* glm::vec3
Vec(x, y, z) == <<x, y, z>>
Zero3 == <<0, 0, 0>>
VAdd(a, b) == <<a[1] + b[1], a[2] + b[2], a[3] + b[3]>>
VSub(a, b) == <<a[1] - b[1], a[2] - b[2], a[3] - b[3]>>
VNeg(a) == <<-a[1], -a[2], -a[3]>>
VDot(a, b) == a[1] * b[1] + a[2] * b[2] + a[3] * b[3]
\* glm::length
VLen(a) == ISqrt(VDot(a, a))
\* a.pos - b.pos, in pm
Sep(p, q) ==
    <<Quot(p[1] - q[1], PosDen), Quot(p[2] - q[2], PosDen),
      Quot(p[3] - q[3], PosDen)>>
\* s * a / d, componentwise
VScale(a, s, d) == <<MulDiv(a[1], s, d), MulDiv(a[2], s, d), MulDiv(a[3], s, d)>>

RECURSIVE SumSeq(_)
SumSeq(s) == IF s = <<>> THEN 0 ELSE Head(s) + SumSeq(Tail(s))

\* the loop "for (auto& a : s) a = F(a)", from place k
RECURSIVE MapFrom(_, _, _)
MapFrom(F(_), s, k) ==
    IF k > Len(s) THEN <<>> ELSE <<F(s[k])>> \o MapFrom(F, s, k + 1)
ForEach(F(_), s) == MapFrom(F, s, 1)

\* ------------------------------------------------------- element table
\* PeriodicTable::dummy_: the default-constructed ElementData
dummy_ ==
    [atomicNumber |-> 0, symbol |-> "", atomicMass |-> 0, electronegativity |-> 0,
     ionizationEnergy |-> 0, electronAffinity |-> 0, atomicRadius |-> 0,
     covalentRadius |-> 0, vdwRadius |-> 0, valenceElectrons |-> 0,
     category |-> ""]

\* The records of data/elements.json that the model spawns.
\* atomicMass in 0.1 amu, electronegativity in 0.01 Pauling,
\* energies in meV, radii in pm.
elements_ ==
    [z \in {1, 2, 3, 6, 8, 11, 17} |->
       CASE z = 1 ->
            [atomicNumber |-> 1, symbol |-> "H", atomicMass |-> 10,
             electronegativity |-> 220, ionizationEnergy |-> 13598,
             electronAffinity |-> 754, atomicRadius |-> 53, covalentRadius |-> 31,
             vdwRadius |-> 120, valenceElectrons |-> 1, category |-> "nonmetal"]
         [] z = 2 ->
            [atomicNumber |-> 2, symbol |-> "He", atomicMass |-> 40,
             electronegativity |-> 0, ionizationEnergy |-> 24587,
             electronAffinity |-> 0, atomicRadius |-> 31, covalentRadius |-> 28,
             vdwRadius |-> 140, valenceElectrons |-> 2, category |-> "noble_gas"]
         [] z = 3 ->
            [atomicNumber |-> 3, symbol |-> "Li", atomicMass |-> 69,
             electronegativity |-> 98, ionizationEnergy |-> 5392,
             electronAffinity |-> 618, atomicRadius |-> 167, covalentRadius |-> 128,
             vdwRadius |-> 182, valenceElectrons |-> 1, category |-> "alkali_metal"]
         [] z = 6 ->
            [atomicNumber |-> 6, symbol |-> "C", atomicMass |-> 120,
             electronegativity |-> 255, ionizationEnergy |-> 11260,
             electronAffinity |-> 1262, atomicRadius |-> 67, covalentRadius |-> 76,
             vdwRadius |-> 170, valenceElectrons |-> 4, category |-> "nonmetal"]
         [] z = 8 ->
            [atomicNumber |-> 8, symbol |-> "O", atomicMass |-> 160,
             electronegativity |-> 344, ionizationEnergy |-> 13618,
             electronAffinity |-> 1461, atomicRadius |-> 48, covalentRadius |-> 66,
             vdwRadius |-> 152, valenceElectrons |-> 6, category |-> "nonmetal"]
         [] z = 11 ->
            [atomicNumber |-> 11, symbol |-> "Na", atomicMass |-> 230,
             electronegativity |-> 93, ionizationEnergy |-> 5139,
             electronAffinity |-> 548, atomicRadius |-> 190, covalentRadius |-> 166,
             vdwRadius |-> 227, valenceElectrons |-> 1, category |-> "alkali_metal"]
         [] z = 17 ->
            [atomicNumber |-> 17, symbol |-> "Cl", atomicMass |-> 355,
             electronegativity |-> 316, ionizationEnergy |-> 12968,
             electronAffinity |-> 3617, atomicRadius |-> 79, covalentRadius |-> 102,
             vdwRadius |-> 175, valenceElectrons |-> 7, category |-> "halogen"]]

\* PeriodicTable::get
Element(z) == IF z \in DOMAIN elements_ THEN elements_[z] ELSE dummy_

\* The bytes of a symbol, for std::string's operator< (the key order of std::map)
SymBytes(sym) ==
    CASE sym = "H"  -> <<72>>
      [] sym = "He" -> <<72, 101>>
      [] sym = "Li" -> <<76, 105>>
      [] sym = "C"  -> <<67>>
      [] sym = "O"  -> <<79>>
      [] sym = "Na" -> <<78, 97>>
      [] sym = "Cl" -> <<67, 108>>
      [] OTHER      -> <<>>

RECURSIVE BytesLess(_, _)
BytesLess(a, b) ==
    IF b = <<>> THEN FALSE
    ELSE IF a = <<>> THEN TRUE
    ELSE IF Head(a) # Head(b) THEN Head(a) < Head(b)
    ELSE BytesLess(Tail(a), Tail(b))
StrLess(s, t) == BytesLess(SymBytes(s), SymBytes(t))

\* ------------------------------------------------------------ electrons
\* Aufbau filling order, (n, l)
fillOrder ==
    << <<1,0>>, <<2,0>>, <<2,1>>, <<3,0>>, <<3,1>>, <<4,0>>, <<3,2>>, <<4,1>>,
       <<5,0>>, <<4,2>>, <<5,1>>, <<6,0>>, <<4,3>>, <<5,2>>, <<6,1>>, <<7,0>>,
       <<5,3>>, <<6,2>>, <<7,1>>, <<6,3>> >>
fillOrderSize == Len(fillOrder)
maxInSubshell(l) == 2 * (2 * l + 1)

\* the inner two loops of fillElectronShells: toFill electrons of subshell
\* (n, l), m from -l upward, spin +1 then -1 for each m
SubshellElectrons(n, l, toFill) ==
    [k \in 1..toFill |->
       [n |-> n, l |-> l, m |-> (k - 1) \div 2 - l,
        s |-> IF k % 2 = 1 THEN 1 ELSE -1]]

RECURSIVE FillFrom(_, _)
FillFrom(i, remaining) ==
    IF i > fillOrderSize \/ remaining <= 0 THEN <<>>
    ELSE LET n == fillOrder[i][1]
             l == fillOrder[i][2]
             toFill == Min(remaining, maxInSubshell(l))
         IN  SubshellElectrons(n, l, toFill) \o FillFrom(i + 1, remaining - toFill)
fillElectronShells(atomicNumber) == FillFrom(1, atomicNumber)

RECURSIVE MaxN(_)
MaxN(es) == IF es = <<>> THEN 0 ELSE Max(Head(es).n, MaxN(Tail(es)))
outermostShell(electrons) == MaxN(electrons)
countValenceElectrons(electrons) ==
    IF electrons = <<>> THEN 0
    ELSE Cardinality({k \in 1..Len(electrons) :
                        electrons[k].n = outermostShell(electrons)})

\* ------------------------------------------------------ exp, acos
\* 10^6 * e^-k for k = 0 .. 13
ExpNegTable ==
    <<1000000, 367879, 135335, 49787, 18316, 6738, 2479, 912, 335, 123, 45, 17,
      6, 2>>
\* 10^6 * e^(-f/1000) for 0 <= f < 1000: the Taylor series to the 8th term
ExpNegFrac(f) ==
    LET t1 == f * 1000
        t2 == (t1 * f) \div 2000
        t3 == (t2 * f) \div 3000
        t4 == (t3 * f) \div 4000
        t5 == (t4 * f) \div 5000
        t6 == (t5 * f) \div 6000
        t7 == (t6 * f) \div 7000
    IN  1000000 - t1 + t2 - t3 + t4 - t5 + t6 - t7
\* 10^6 * e^(-q/1000) for q >= 0
ExpNegMicro(q) ==
    LET k == q \div 1000
    IN  IF k >= Len(ExpNegTable) THEN 0
        ELSE (ExpNegTable[k + 1] * (ExpNegFrac(q % 1000) \div 1000)) \div 1000
\* The largest value of std::exp the fixed point carries: 1000 * e^4
ExpCap == 54598
\* 1000 * std::exp(x/1000)
ExpMilli(x) ==
    IF x <= 0 THEN ExpNegMicro(-x) \div 1000
    ELSE IF x >= 4000 THEN ExpCap
    ELSE Min(ExpCap, 1000000000 \div ExpNegMicro(x))

\* 1000 * std::acos(c/1000) for -1000 <= c <= 1000 (Abramowitz-Stegun 4.4.45:
\* sqrt(1-x) * (1.5707288 - 0.2121144 x + 0.0742610 x^2 - 0.0187293 x^3))
AcosPos(c) ==
    LET c2 == (c * c) \div 1000
        c3 == (c2 * c) \div 1000
        poly == 1570729 - 212 * c + 74 * c2 - 19 * c3
    IN  (ISqrt((1000 - c) * 1000) * (poly \div 1000)) \div 1000
AcosMilli(c) == IF c >= 0 THEN AcosPos(c) ELSE 3142 - AcosPos(-c)

\* ------------------------------------------------------ program constants
\* InteractionEngine::kB, in 10^-8 eV/K (8.617e-5 eV/K)
kB == 8617
\* InteractionEngine::coulK, in meV pm (14.4 eV A)
coulK == 1440000
\* InteractionEngine::bondingRange, pm (5.0 A)
bondingRange == 500
\* InteractionEngine::ionicThreshold, 0.01 Pauling (1.7)
ionicThreshold == 170
\* InteractionEngine::ljEpsilon, meV (0.01 eV)
ljEpsilon == 10
\* InteractionEngine::cutoffDist and switchDist, pm (20 A, 15 A)
cutoffDist == 2000
switchDist == 1500
\* Simulation::worldSize, pm (50 A)
worldSize == 5000
\* the bond-update interval of Simulation::step
BondInterval == 10

\* variant: the comparison turned around
BelowThermal_Above(E, mult, T) == E > CeilDiv(mult * kB * T, 100000)

\* E < mult * kB * T, E in meV (kB * T in meV is kB * T / 10^5)
BelowThermal(E, mult, T) == E < CeilDiv(mult * kB * T, 100000)

\* ------------------------------------------------------------------ Atom
IONIC == "IONIC"
COVALENT == "COVALENT"

RECURSIVE SumOrders(_)
SumOrders(bs) == IF bs = <<>> THEN 0 ELSE Head(bs).order + SumOrders(Tail(bs))
totalBondOrder(a) == SumOrders(a.bonds)

availableValenceElectrons(a) ==
    Max(0, Element(a.elementZ).valenceElectrons - totalBondOrder(a))

updateEffectiveValence(a) ==
    [a EXCEPT !.effectiveValence = availableValenceElectrons(a)]

wantsElectron(a) ==
    /\ Element(a.elementZ).electronAffinity > 300
    /\ Element(a.elementZ).valenceElectrons < 8

wantsToLoseElectron(a) ==
    /\ Element(a.elementZ).ionizationEnergy < 8000
    /\ Element(a.elementZ).valenceElectrons <= 2

\* Atom::init, then the position and velocity spawnAtom gives the atom
NewAtom(atomicNumber, pos, vel) ==
    updateEffectiveValence(
      [elementZ |-> atomicNumber, pos |-> pos, vel |-> vel, force |-> Zero3,
       mass |-> Element(atomicNumber).atomicMass,
       electrons |-> fillElectronShells(atomicNumber), charge |-> 0,
       effectiveValence |-> 0, bonds |-> <<>>, moleculeId |-> -1,
       kineticEnergy |-> 0])

\* Atom::removeOuterElectron on a non-empty list: the atom after the call
\* (the electron returned is the last of a.electrons)
removeOuterElectron(a) ==
    updateEffectiveValence(
      [a EXCEPT !.electrons = SubSeq(a.electrons, 1, Len(a.electrons) - 1),
                !.charge = a.charge + 1])

\* Atom::removeOuterElectron on an empty list: back() and pop_back() are
\* undefined; when the call returns, the list is still without elements the
\* program put there, and the charge has been incremented
removeOuterElectronEmpty(a) ==
    updateEffectiveValence([a EXCEPT !.charge = a.charge + 1])

addElectron(a, e) ==
    updateEffectiveValence(
      [a EXCEPT !.electrons = Append(a.electrons, e), !.charge = a.charge - 1])

\* what electrons.back() may return on an empty list
GarbageElectrons == {[n |-> 0, l |-> 0, m |-> 0, s |-> 0]}

\* ------------------------------------------------- bonding state machine
Dist(as, i, j) == VLen(Sep(as[i + 1].pos, as[j + 1].pos))

\* variant: the scan does not look for an entry to the partner
HasBondTo_Unseen(a, j) == FALSE

HasBondTo(a, j) == \E k \in 1..Len(a.bonds) : a.bonds[k].otherAtomIdx = j

\* std::sqrt(5 / (2 * max(bondE, 0.1))), in 0.01/A
MorseAlpha(bondE) == ISqrt(25000000 \div Max(bondE, 100))

MkBond(other, type, order, bondE, eqDist) ==
    [otherAtomIdx |-> other, type |-> type, order |-> order, strength |-> bondE,
     equilibriumDist |-> eqDist, morseAlpha |-> MorseAlpha(bondE)]

\* tryIonicBond, lines 204-207
DonorIdx(as, idxA, idxB) ==
    IF Element(as[idxA + 1].elementZ).electronegativity
         < Element(as[idxB + 1].elementZ).electronegativity
    THEN idxA ELSE idxB
AcceptorIdx(as, idxA, idxB) == IF DonorIdx(as, idxA, idxB) = idxA THEN idxB ELSE idxA

\* tryIonicBond, lines 214-217
IonicDeltaE(as, idxA, idxB) ==
    LET donor == as[DonorIdx(as, idxA, idxB) + 1]
        acceptor == as[AcceptorIdx(as, idxA, idxB) + 1]
        dist == Dist(as, idxA, idxB)
        coulombStab == coulK \div Max(dist, 50)
    IN  Element(donor.elementZ).ionizationEnergy
          - Element(acceptor.elementZ).electronAffinity - coulombStab

\* tryIonicBond, line 223
IonicThermalReject(deltaE, T) == BelowThermal(Abs(deltaE), 2, T)

\* tryIonicBond returns false
IonicDeclines(as, idxA, idxB, T) ==
    \/ ~wantsToLoseElectron(as[DonorIdx(as, idxA, idxB) + 1])
    \/ ~wantsElectron(as[AcceptorIdx(as, idxA, idxB) + 1])
    \/ IonicDeltaE(as, idxA, idxB) > 0
    \/ IonicThermalReject(IonicDeltaE(as, idxA, idxB), T)

\* variant: the log keeps the latest event only
LogEvent_Latest(log, ev) == <<ev>>

\* reactionLog.push_back({simTime, oss.str()})
LogEvent(log, ev) == Append(log, ev)

\* The engine state the bonding operators read and write
EngState(as, log, tbe, formed, broken) ==
    [atoms |-> as, reactionLog |-> log, totalBondE |-> tbe,
     bondFormedCount |-> formed, bondBrokenCount |-> broken]

\* tryIonicBond, lines 225-252, on a pair that does not decline; g is the
\* electron back() yields when the donor's list is empty
IonicForm(e, idxA, idxB, time, g) ==
    LET as == e.atoms
        donorIdx == DonorIdx(as, idxA, idxB)
        accIdx == AcceptorIdx(as, idxA, idxB)
        donor == as[donorIdx + 1]
        acceptor == as[accIdx + 1]
        deltaE == IonicDeltaE(as, idxA, idxB)
        el == IF donor.electrons = <<>> THEN g
              ELSE donor.electrons[Len(donor.electrons)]
        donor1 == IF donor.electrons = <<>> THEN removeOuterElectronEmpty(donor)
                  ELSE removeOuterElectron(donor)
        acceptor1 == addElectron(acceptor, el)
        bondE == Abs(deltaE)
        eqDist == Element(donor.elementZ).covalentRadius
                    + Element(acceptor.elementZ).covalentRadius
        bondA == MkBond(accIdx, IONIC, 1, bondE, eqDist)
        bondB == MkBond(donorIdx, IONIC, 1, bondE, eqDist)
        donor2 == [donor1 EXCEPT !.bonds = Append(donor1.bonds, bondA)]
        acceptor2 == [acceptor1 EXCEPT !.bonds = Append(acceptor1.bonds, bondB)]
    IN  [e EXCEPT
           !.atoms = [as EXCEPT ![donorIdx + 1] = donor2, ![accIdx + 1] = acceptor2],
           !.totalBondE = e.totalBondE + bondE,
           !.bondFormedCount = e.bondFormedCount + 1,
           !.reactionLog = LogEvent(e.reactionLog,
               [time |-> time, kind |-> "ionic bond",
                a |-> Element(donor.elementZ).symbol,
                b |-> Element(acceptor.elementZ).symbol, value |-> -deltaE])]

tryIonicBond(e, idxA, idxB, T, time, g) ==
    IF IonicDeclines(e.atoms, idxA, idxB, T) THEN e
    ELSE IonicForm(e, idxA, idxB, time, g)

\* estimateBondEnergy, the covalent branch
estimateBondEnergy(a, b, order) ==
    LET IE_A == Element(a.elementZ).ionizationEnergy
        IE_B == Element(b.elementZ).ionizationEnergy
        EA_A == Max(Element(a.elementZ).electronAffinity, 100)
        EA_B == Max(Element(b.elementZ).electronAffinity, 100)
        baseBondE == ISqrt(EA_A * EA_B) + ISqrt(IE_A * IE_B) \div 10
    IN  baseBondE * order

\* variant: the order is capped at 3 only
CovalentOrder_Capped(a, b) ==
    IF availableValenceElectrons(a) > 0 /\ availableValenceElectrons(b) > 0
    THEN 3 ELSE 0

\* tryCovalentBond, line 264
CovalentOrder(a, b) ==
    Min(Min(availableValenceElectrons(a), availableValenceElectrons(b)), 3)

CovalentEqDist(a, b) ==
    Element(a.elementZ).covalentRadius + Element(b.elementZ).covalentRadius

\* tryCovalentBond, lines 270-272: 1000 * exp(-(dist-eqDist)^2 / (eqDist/2)^2)
OverlapFactor(dist, eqDist) ==
    LET sigma2 == (eqDist * eqDist) \div 4
        d2 == (dist - eqDist) * (dist - eqDist)
    IN  IF sigma2 = 0 THEN 0
        ELSE ExpNegMicro(Min(MulDiv(d2, 1000, sigma2), 14000)) \div 1000

\* tryCovalentBond, line 274
CovalentBondE(as, idxA, idxB) ==
    LET a == as[idxA + 1]
        b == as[idxB + 1]
    IN  MulDiv(estimateBondEnergy(a, b, CovalentOrder(a, b)),
               OverlapFactor(Dist(as, idxA, idxB), CovalentEqDist(a, b)), 1000)

\* tryCovalentBond, line 278
CovalentThermalReject(bondE, T) == BelowThermal(bondE, 3, T)

\* tryCovalentBond returns false
CovalentDeclines(as, idxA, idxB, T) ==
    \/ availableValenceElectrons(as[idxA + 1]) <= 0
    \/ availableValenceElectrons(as[idxB + 1]) <= 0
    \/ CovalentThermalReject(CovalentBondE(as, idxA, idxB), T)

\* tryCovalentBond, lines 280-304, on a pair that does not decline
CovalentForm(e, idxA, idxB, time) ==
    LET as == e.atoms
        a == as[idxA + 1]
        b == as[idxB + 1]
        order == CovalentOrder(a, b)
        eqDist == CovalentEqDist(a, b)
        bondE == CovalentBondE(as, idxA, idxB)
        bondA == MkBond(idxB, COVALENT, order, bondE, eqDist)
        bondB == MkBond(idxA, COVALENT, order, bondE, eqDist)
        a1 == updateEffectiveValence([a EXCEPT !.bonds = Append(a.bonds, bondA)])
        b1 == updateEffectiveValence([b EXCEPT !.bonds = Append(b.bonds, bondB)])
    IN  [e EXCEPT
           !.atoms = [as EXCEPT ![idxA + 1] = a1, ![idxB + 1] = b1],
           !.totalBondE = e.totalBondE + bondE,
           !.bondFormedCount = e.bondFormedCount + 1,
           !.reactionLog = LogEvent(e.reactionLog,
               [time |-> time, kind |-> "covalent bond",
                a |-> Element(a.elementZ).symbol,
                b |-> Element(b.elementZ).symbol, value |-> order])]

\* variant: an attempt that declines is counted all the same
tryCovalentBond_Counted(e, idxA, idxB, T, time) ==
    IF CovalentDeclines(e.atoms, idxA, idxB, T)
    THEN [e EXCEPT !.bondFormedCount = e.bondFormedCount + 1]
    ELSE CovalentForm(e, idxA, idxB, time)

\* variant: the covalent attempt always declines
tryCovalentBond_Declined(e, idxA, idxB, T, time) == e

tryCovalentBond(e, idxA, idxB, T, time) ==
    IF CovalentDeclines(e.atoms, idxA, idxB, T) THEN e
    ELSE CovalentForm(e, idxA, idxB, time)

\* shouldBreakBond, lines 313-320: morseE > De * 0.9
MorseStretched(bond, dist) ==
    LET De == bond.strength
        expt == ExpMilli(-((bond.morseAlpha * (dist - bond.equilibriumDist)) \div 10))
        y == 1000 - expt
        morseE == MulDiv(De, MulDiv(y, y, 1000), 1000)
    IN  morseE * 10 > De * 9

\* shouldBreakBond, lines 323-326: exp(-De / (thermalE * 3)) > 0.5
ThermallyUnstable(bond, T) ==
    LET thermalE3 == (3 * kB * T) \div 1000
    IN  /\ thermalE3 > 0
        /\ ExpNegMicro(Min(MulDiv(bond.strength, 100000, thermalE3), 14000)) > 500000

shouldBreakBond(bond, dist, T) ==
    \/ MorseStretched(bond, dist)
    \/ ThermallyUnstable(bond, T)
    \/ 2 * dist > 5 * bond.equilibriumDist

RemoveAt(s, k) == SubSeq(s, 1, k - 1) \o SubSeq(s, k + 1, Len(s))

\* variant: the partner's list is left as it is
RemoveBondsTo_Kept(bs, i) == bs

\* std::remove_if + erase on the partner's list
RemoveBondsTo(bs, i) == SelectSeq(bs, LAMBDA b : b.otherAtomIdx # i)

\* updateBonds phase 1, lines 344-375, for the k-th bond of atom i:
\* the engine state after the loop body, and whether the bond was kept
BreakBody(e, i, k, T, time) ==
    LET as == e.atoms
        n == Len(as)
        bond == as[i + 1].bonds[k]
        j == bond.otherAtomIdx
    IN  IF j < 0 \/ j >= n
        THEN [e EXCEPT !.atoms[i + 1].bonds = RemoveAt(as[i + 1].bonds, k)]
        ELSE IF ~shouldBreakBond(bond, Dist(as, i, j), T) THEN e
        ELSE
          LET as1 == [as EXCEPT ![j + 1].bonds = RemoveBondsTo(as[j + 1].bonds, i)]
              returns == /\ bond.type = IONIC
                         /\ as1[i + 1].charge > 0
                         /\ as1[j + 1].electrons # <<>>
              el == as1[j + 1].electrons[Len(as1[j + 1].electrons)]
              as2 == IF returns
                     THEN [as1 EXCEPT ![j + 1] = removeOuterElectron(as1[j + 1]),
                                      ![i + 1] = addElectron(as1[i + 1], el)]
                     ELSE as1
              as3 == [as2 EXCEPT ![i + 1].bonds = RemoveAt(as2[i + 1].bonds, k)]
          IN  [e EXCEPT
                 !.atoms = as3,
                 !.reactionLog = LogEvent(e.reactionLog,
                     [time |-> time, kind |-> "bond broken",
                      a |-> Element(as[i + 1].elementZ).symbol,
                      b |-> Element(as[j + 1].elementZ).symbol, value |-> T]),
                 !.totalBondE = e.totalBondE - bond.strength,
                 !.bondBrokenCount = e.bondBrokenCount + 1]

\* variant: the scan does not test for noble gases
FormSkips_NobleBonds(as, i, j) ==
    \/ Dist(as, i, j) > bondingRange
    \/ HasBondTo(as[i + 1], j)
    \/ (Element(as[i + 1].elementZ).electronegativity < 1
          /\ Element(as[i + 1].elementZ).category # "noble_gas")
    \/ (Element(as[j + 1].elementZ).electronegativity < 1
          /\ Element(as[j + 1].elementZ).category # "noble_gas")

\* updateBonds phase 2, lines 382-406, for the pair (i, j)
FormSkips(as, i, j) ==
    \/ Dist(as, i, j) > bondingRange
    \/ HasBondTo(as[i + 1], j)
    \/ Element(as[i + 1].elementZ).category = "noble_gas"
    \/ Element(as[j + 1].elementZ).category = "noble_gas"
    \/ Element(as[i + 1].elementZ).electronegativity < 1
    \/ Element(as[j + 1].elementZ).electronegativity < 1

DeltaChi(as, i, j) ==
    Abs(Element(as[i + 1].elementZ).electronegativity
          - Element(as[j + 1].elementZ).electronegativity)

\* variant: the ionic attempt takes pairs from 0.5 below the threshold on
RoutesIonic_FromThreshold(as, i, j) == DeltaChi(as, i, j) >= ionicThreshold - 50

\* updateBonds, lines 401-406: deltaChi > ionicThreshold
RoutesIonic(as, i, j) == DeltaChi(as, i, j) > ionicThreshold

FormBody(e, i, j, T, time, g) ==
    IF FormSkips(e.atoms, i, j) THEN e
    ELSE IF RoutesIonic(e.atoms, i, j) THEN tryIonicBond(e, i, j, T, time, g)
    ELSE tryCovalentBond(e, i, j, T, time)

\* updateBonds, line 411
RefreshValences(as) == ForEach(updateEffectiveValence, as)

\* variant: the list is not cleared
molecules_clear_Kept(mols) == mols

\* -------------------------------------------------------- MoleculeTracker
\* molecules_.clear()
molecules_clear(mols) == <<>>

\* variant: the bonds of the current atom are not followed
ScanBonds_NotFollowed(bs, atomCount, q, visited) == [q |-> q, visited |-> visited]

\* the for loop over atoms[cur].bonds, lines 30-36
RECURSIVE ScanBonds(_, _, _, _)
ScanBonds(bs, atomCount, q, visited) ==
    IF bs = <<>> THEN [q |-> q, visited |-> visited]
    ELSE LET other == Head(bs).otherAtomIdx
         IN  IF other >= 0 /\ other < atomCount /\ other \notin visited
             THEN ScanBonds(Tail(bs), atomCount, Append(q, other), visited \cup {other})
             ELSE ScanBonds(Tail(bs), atomCount, q, visited)

\* the while loop, lines 26-37
RECURSIVE BfsLoop(_, _, _, _, _)
BfsLoop(as, atomCount, q, visited, atomIndices) ==
    IF q = <<>> THEN [atomIndices |-> atomIndices, visited |-> visited]
    ELSE LET cur == Head(q)
             r == ScanBonds(as[cur + 1].bonds, atomCount, Tail(q), visited)
         IN  BfsLoop(as, atomCount, r.q, r.visited, Append(atomIndices, cur))

\* the std::map of computeFormula: the symbols present and their counts
FormulaSymbols(as, indices) ==
    {Element(as[indices[k] + 1].elementZ).symbol : k \in 1..Len(indices)}
FormulaCount(as, indices, sym) ==
    Cardinality({k \in 1..Len(indices) :
                   Element(as[indices[k] + 1].elementZ).symbol = sym})

\* variant: the count is always written
FormulaPart_Counted(sym, count) == sym \o ToString(count)

\* formula += sym; if (count > 1) formula += std::to_string(count)
FormulaPart(sym, count) == IF count > 1 THEN sym \o ToString(count) ELSE sym

\* the range-for over the map, lines 88-91: keys in std::string order
RECURSIVE FormulaRest(_, _, _)
FormulaRest(as, indices, syms) ==
    IF syms = {} THEN ""
    ELSE LET sym == CHOOSE x \in syms : \A y \in syms \ {x} : StrLess(x, y)
         IN  FormulaPart(sym, FormulaCount(as, indices, sym))
               \o FormulaRest(as, indices, syms \ {sym})

\* the lambda append, lines 77-84
FormulaAppend(as, indices, syms, sym) ==
    IF sym \in syms THEN FormulaPart(sym, FormulaCount(as, indices, sym)) ELSE ""

computeFormula(as, indices) ==
    IF Len(indices) = 1 THEN Element(as[indices[1] + 1].elementZ).symbol
    ELSE LET syms == FormulaSymbols(as, indices)
         IN  FormulaAppend(as, indices, syms, "C")
               \o FormulaAppend(as, indices, syms, "H")
               \o FormulaRest(as, indices, syms \ {"C", "H"})

RECURSIVE MassSum(_, _)
MassSum(as, indices) ==
    IF indices = <<>> THEN 0
    ELSE as[Head(indices) + 1].mass + MassSum(as, Tail(indices))

RECURSIVE WeightedPos(_, _)
WeightedPos(as, indices) ==
    IF indices = <<>> THEN Zero3
    ELSE VAdd(VScale(as[Head(indices) + 1].pos, as[Head(indices) + 1].mass, 1),
              WeightedPos(as, Tail(indices)))

\* lines 52-57: each bond once, from its lower-index end
RECURSIVE StrengthUp(_, _)
StrengthUp(bs, idx) ==
    IF bs = <<>> THEN 0
    ELSE (IF Head(bs).otherAtomIdx > idx THEN Head(bs).strength ELSE 0)
           + StrengthUp(Tail(bs), idx)
RECURSIVE BondEnergySum(_, _)
BondEnergySum(as, indices) ==
    IF indices = <<>> THEN 0
    ELSE StrengthUp(as[Head(indices) + 1].bonds, Head(indices))
           + BondEnergySum(as, Tail(indices))

\* lines 39-60: the Molecule built from one component
MkMolecule(as, molId, atomIndices) ==
    LET totalMass == MassSum(as, atomIndices)
        wsum == WeightedPos(as, atomIndices)
    IN  [id |-> molId, atomIndices |-> atomIndices,
         totalBondEnergy |-> BondEnergySum(as, atomIndices),
         formula |-> computeFormula(as, atomIndices),
         centerOfMass |-> IF totalMass > 0 THEN VScale(wsum, 1, totalMass) ELSE wsum,
         totalMass |-> totalMass]

\* the for loop over i, lines 16-62
RECURSIVE TrackerLoop(_, _, _, _, _, _)
TrackerLoop(as, atomCount, i, visited, molId, mols) ==
    IF i >= atomCount THEN mols
    ELSE IF i \in visited THEN TrackerLoop(as, atomCount, i + 1, visited, molId, mols)
    ELSE LET r == BfsLoop(as, atomCount, <<i>>, visited \cup {i}, <<>>)
         IN  TrackerLoop(as, atomCount, i + 1, r.visited, molId + 1,
                         Append(mols, MkMolecule(as, molId, r.atomIndices)))

\* variant: an empty collection returns before the list is cleared
TrackerUpdate_EarlyReturn(mols, as, atomCount) ==
    IF atomCount = 0 THEN mols
    ELSE TrackerLoop(as, atomCount, 0, {}, 0, molecules_clear(mols))

\* MoleculeTracker::update: the new molecules_
TrackerUpdate(mols, as, atomCount) ==
    IF atomCount = 0 THEN molecules_clear(mols)
    ELSE TrackerLoop(as, atomCount, 0, {}, 0, molecules_clear(mols))

\* ------------------------------------------------------------ force field
\* 1000 * switchingFunction(dist)
switchingFunction(dist) ==
    IF dist < switchDist THEN 1000
    ELSE IF dist > cutoffDist THEN 0
    ELSE LET t == ((dist - switchDist) * 1000) \div (cutoffDist - switchDist)
             t2 == (t * t) \div 1000
             t3 == (t2 * t) \div 1000
         IN  1000 - 3 * t2 + 2 * t3

\* morseForce; dir is 1000 * the unit vector
morseForce(bond, dist, dir) ==
    LET De == bond.strength
        expt == ExpMilli(-((bond.morseAlpha * (dist - bond.equilibriumDist)) \div 10))
        magnitude == MulDiv(MulDiv(2 * De, bond.morseAlpha, 100),
                            MulDiv(1000 - expt, expt, 1000), 1000)
    IN  IF De < 1 \/ dist < 10 THEN Zero3
        ELSE VScale(dir, -magnitude, 1000)

coulombForce(a, b, dist, dir) ==
    LET softDist == Max(dist, 50)
        magnitude == MulDiv(coulK * 100, a.charge * b.charge, softDist * softDist)
    IN  IF a.charge = 0 /\ b.charge = 0 THEN Zero3
        ELSE VScale(dir, MulDiv(magnitude, switchingFunction(dist), 1000), 1000)

\* The largest sigma / softDist the fixed point carries, in 0.001
LjRatioCap == 2500
ljForce(a, b, dist, dir) ==
    LET sigma == (Element(a.elementZ).vdwRadius + Element(b.elementZ).vdwRadius) \div 2
        softDist == Max(dist, 50)
        r == Min((sigma * 1000) \div softDist, LjRatioCap)
        r2 == (r * r) \div 1000
        sr6 == MulDiv(MulDiv(r2, r2, 1000), r2, 1000)
        sr12 == MulDiv(sr6, sr6, 1000)
        magnitude == MulDiv(2 * sr12 - sr6, 24 * ljEpsilon, 10 * softDist)
    IN  VScale(dir, MulDiv(magnitude, switchingFunction(dist), 1000), 1000)

\* computeForces, lines 150-153: the first bond of atom i to atom j
BondTo(a, j) ==
    LET ks == {k \in 1..Len(a.bonds) : a.bonds[k].otherAtomIdx = j}
    IN  IF ks = {} THEN <<>>
        ELSE <<a.bonds[CHOOSE k \in ks : \A k2 \in ks : k <= k2]>>

\* computeForces, lines 144-164: the force f of the pair (i, j), or no force
\* when the pair is skipped
PairForce(as, i, j) ==
    LET a == as[i + 1]
        b == as[j + 1]
        diff == Sep(a.pos, b.pos)
        dist == VLen(diff)
        dir == VScale(diff, 1000, Max(dist, 1))
        bond == BondTo(a, j)
    IN  IF dist < 1 \/ dist > cutoffDist THEN Zero3
        ELSE VAdd(IF bond # <<>> THEN morseForce(bond[1], dist, dir)
                  ELSE ljForce(a, b, dist, dir),
                  coulombForce(a, b, dist, dir))

\* variant: the force is added to atom i only
AddPairForce_OneSided(as, i, j, f) == [as EXCEPT ![i + 1].force = VAdd(@, f)]

\* computeForces, lines 166-167
AddPairForce(as, i, j, f) ==
    [as EXCEPT ![i + 1].force = VAdd(@, f), ![j + 1].force = VSub(@, f)]

\* the double loop over i < j, lines 142-168
RECURSIVE PairLoop(_, _, _)
PairLoop(as, i, j) ==
    IF i >= Len(as) THEN as
    ELSE IF j >= Len(as) THEN PairLoop(as, i + 1, i + 2)
    ELSE PairLoop(AddPairForce(as, i, j, PairForce(as, i, j)), i, j + 1)

\* The largest kinetic energy of one atom the fixed point carries, meV; the
\* thermostat's clamp decides long before it
KECap == 1000000
\* 0.5 * mass * dot(vel, vel), meV
KineticEnergy(a) ==
    LET slow == \A c \in 1..3 : Abs(a.vel[c]) < 14000
        v == IF slow THEN a.vel ELSE Sep(a.vel, Zero3)
        den == IF slow THEN 200 * PosDen * PosDen ELSE 200
    IN  IF a.mass = 0 THEN 0
        ELSE IF \E c \in 1..3 : Abs(v[c]) >= 14000 THEN KECap
        ELSE Min(KECap, MulDiv(VDot(v, v), a.mass, den))

\* idealBondAngle, mrad
idealBondAngle(stericNumber) ==
    CASE stericNumber = 2 -> 3142
      [] stericNumber = 3 -> 2094
      [] stericNumber = 4 -> 1911
      [] stericNumber = 5 -> 1571
      [] stericNumber = 6 -> 1571
      [] OTHER -> 1911

\* applyAngleForces, lines 117-118 and 125-126: the force on a bonded
\* neighbour and its reaction on the centre
AddAngleForce(as, idx, center, f) ==
    [as EXCEPT ![idx + 1].force = VAdd(@, f), ![center + 1].force = VSub(@, f)]

\* applyAngleForces, lines 91-127, for the bonds bi < bj of the centre i
\* (bi, bj count from 1)
AngleBody(as, i, bi, bj) ==
    LET center == as[i + 1]
        nBonds == Len(center.bonds)
        lonePairs == Max(0, Quot(Element(center.elementZ).valenceElectrons
                                   - totalBondOrder(center), 2))
        idealRad == idealBondAngle(nBonds + lonePairs)
        idxA == center.bonds[bi].otherAtomIdx
        idxB == center.bonds[bj].otherAtomIdx
    IN  IF idxA < 0 \/ idxB < 0 \/ idxA >= Len(as) \/ idxB >= Len(as) THEN as
        ELSE
          LET rA0 == Sep(as[idxA + 1].pos, center.pos)
              rB0 == Sep(as[idxB + 1].pos, center.pos)
              lenA == VLen(rA0)
              lenB == VLen(rB0)
          IN  IF lenA < 1 \/ lenB < 1 THEN as
              ELSE
                LET rA == VScale(rA0, 1000, lenA)
                    rB == VScale(rB0, 1000, lenB)
                    cosAngle == Max(-1000, Min(1000, VDot(rA, rB) \div 1000))
                    dAngle == AcosMilli(cosAngle) - idealRad
                    forceMag == 2 * dAngle
                    perpA0 == VSub(rB, VScale(rA, cosAngle, 1000))
                    perpB0 == VSub(rA, VScale(rB, cosAngle, 1000))
                    perpAlen == VLen(perpA0)
                    perpBlen == VLen(perpB0)
                    fA == VScale(VScale(perpA0, 1000, Max(perpAlen, 1)),
                                 MulDiv(forceMag, 100, lenA), 1000)
                    fB == VScale(VScale(perpB0, 1000, Max(perpBlen, 1)),
                                 MulDiv(forceMag, 100, lenB), 1000)
                    as1 == IF perpAlen > 1 THEN AddAngleForce(as, idxA, i, fA) ELSE as
                IN  IF perpBlen > 1 THEN AddAngleForce(as1, idxB, i, fB) ELSE as1

RECURSIVE AngleLoop(_, _, _, _)
AngleLoop(as, i, bi, bj) ==
    IF i >= Len(as) THEN as
    ELSE IF Len(as[i + 1].bonds) < 2 \/ bi >= Len(as[i + 1].bonds)
         THEN AngleLoop(as, i + 1, 1, 2)
    ELSE IF bj > Len(as[i + 1].bonds) THEN AngleLoop(as, i, bi + 1, bi + 2)
    ELSE AngleLoop(AngleBody(as, i, bi, bj), i, bi, bj + 1)

applyAngleForces(as) == AngleLoop(as, 0, 1, 2)

\* computeForces: the atoms with force and kineticEnergy recomputed
computeForces(as) ==
    LET Cleared(a) == [a EXCEPT !.force = Zero3,
                                !.kineticEnergy = KineticEnergy(a)]
    IN  applyAngleForces(PairLoop(ForEach(Cleared, as), 0, 1))

\* computeForces: totalKE
TotalKE(as) == SumSeq(ForEach(KineticEnergy, as))

\* ------------------------------------------------------------- integrator
\* dt is counted in 1/DtDen of the time unit
DtDen == 16

\* steps 1 and 4 of Simulation::step: a.vel += 0.5 * dt * a.force / a.mass
HalfKick(a, dt) ==
    IF a.mass > 0
    THEN [a EXCEPT !.vel = VAdd(a.vel,
            <<MulDiv(a.force[1], PosDen * dt, 2 * DtDen * a.mass),
              MulDiv(a.force[2], PosDen * dt, 2 * DtDen * a.mass),
              MulDiv(a.force[3], PosDen * dt, 2 * DtDen * a.mass)>>)]
    ELSE a

\* variant: the wall turns the velocity and leaves the position
BoundAxis_Reflect(p, v) ==
    IF p > worldSize * PosDen \/ p < -worldSize * PosDen THEN <<p, -Quot(v, 2)>>
    ELSE <<p, v>>

\* Simulation::applyBoundary, one axis: <<pos, vel>> of that axis
BoundAxis(p, v) ==
    IF p > worldSize * PosDen THEN <<worldSize * PosDen, -Quot(v, 2)>>
    ELSE IF p < -worldSize * PosDen THEN <<-worldSize * PosDen, -Quot(v, 2)>>
    ELSE <<p, v>>

applyBoundary(a) ==
    [a EXCEPT
       !.pos = <<BoundAxis(a.pos[1], a.vel[1])[1], BoundAxis(a.pos[2], a.vel[2])[1],
                 BoundAxis(a.pos[3], a.vel[3])[1]>>,
       !.vel = <<BoundAxis(a.pos[1], a.vel[1])[2], BoundAxis(a.pos[2], a.vel[2])[2],
                 BoundAxis(a.pos[3], a.vel[3])[2]>>]

\* step 2: a.pos += dt * a.vel; applyBoundary(a)
Drift(a, dt) ==
    applyBoundary([a EXCEPT !.pos = VAdd(a.pos,
        <<Quot(dt * a.vel[1], DtDen), Quot(dt * a.vel[2], DtDen),
          Quot(dt * a.vel[3], DtDen)>>)])

\* berendsenThermostat: 1000 * lambda
ThermostatLambda(as, dt, targetT, tau) ==
    LET totalKE == TotalKE(as)
        t0 == MulDiv(MulDiv(2 * totalKE, 1000, 3 * Len(as)), 100, kB)
        currentT == IF t0 < 1 THEN 1 ELSE t0
        ratio == MulDiv(targetT, 1000, currentT)
        arg == 1000 + Quot(dt * (ratio - 1000), DtDen * tau)
    IN  Max(900, Min(1100, ISqrt(arg * 1000)))

berendsenThermostat(as, dt, targetT, tau) ==
    IF as = <<>> \/ targetT < 1 THEN as
    ELSE LET lambda == ThermostatLambda(as, dt, targetT, tau)
             Scaled(a) == [a EXCEPT !.vel = VScale(a.vel, lambda, 1000)]
         IN  ForEach(Scaled, as)

\* Simulation::step, lines 64-91: the atoms after the integration and the
\* thermostat
Integrate(as, dt, T) ==
    LET Kick(a) == HalfKick(a, dt)
        Move(a) == Drift(a, dt)
        forced == computeForces(ForEach(Move, ForEach(Kick, as)))
    IN  berendsenThermostat(ForEach(Kick, forced), dt, T, 100)

\* spawnAtom, lines 14-15: vrms = sqrt(3 kT / mass), pm/tu
Vrms(atomicNumber, T) ==
    ISqrt(MulDiv(MulDiv(3 * kB * T, PosDen, 1000), PosDen,
                 Element(atomicNumber).atomicMass))

\* ------------------------------------------------------------------ state
VARIABLES
    atoms,            \* Simulation::atoms_
    molecules,        \* MoleculeTracker::molecules_
    temperature,      \* InteractionEngine::temperature, K
    reactionLog,      \* InteractionEngine::reactionLog
    engSimTime,       \* InteractionEngine::simTime
    simTime,          \* Simulation::simTime, in 1/DtDen tu
    stepCount,        \* Simulation::stepCount
    bondFormedCount,  \* InteractionEngine::bondFormedCount
    bondBrokenCount,  \* InteractionEngine::bondBrokenCount
    totalBondE,       \* InteractionEngine::totalBondE
    pc,               \* where the running call is: "idle" between calls,
                      \* "break" / "form" / "finish" inside updateBonds,
                      \* "crashed" once the process has aborted
    caller,           \* the call that entered updateBonds: "spawn" or "step"
    scanI,            \* updateBonds: the loop variable i
    scanK,            \* updateBonds: phase 1, the place of the iterator it in
                      \* atoms[i].bonds (from 1); phase 2, the loop variable j
    oldCount,         \* Simulation::step: oldCount
    curDt,            \* Simulation::step: dt
    spawned           \* the calls of spawnAtom so far

vars == <<atoms, molecules, temperature, reactionLog, engSimTime, simTime,
          stepCount, bondFormedCount, bondBrokenCount, totalBondE,
          pc, caller, scanI, scanK, oldCount, curDt, spawned>>

\* ------------------------------------------------------------------ inputs
\* spawn positions: 1 A along x, 1 A along y, and the bonding range along x
Origin == <<0, 0, 0>>
AlongX == <<100 * PosDen, 0, 0>>
AlongY == <<0, 100 * PosDen, 0>>
AtRange == <<bondingRange * PosDen, 0, 0>>
\* the spawn requests <<atomicNumber, pos, s>>; the velocity drawn from
\* uniform(-vrms, vrms) per axis is <<s * vrms, 0, 0>>
SpawnSet ==
    { <<17, Origin, 0>>, <<3, Origin, 0>>, <<11, AtRange, 0>>, <<8, Origin, 0>>,
      <<1, AlongX, 0>>, <<1, AlongY, 0>>, <<1, AtRange, 0>>, <<1, AlongX, 1>> }
\* temperature setpoints, K
TempSet == {10, 300}
\* the dt of step(dt), in 1/DtDen tu
DtSet == {4}

Init ==
    /\ atoms = <<>>
    /\ molecules = <<>>
    /\ temperature = 300
    /\ reactionLog = <<>>
    /\ engSimTime = 0
    /\ simTime = 0
    /\ stepCount = 0
    /\ bondFormedCount = 0
    /\ bondBrokenCount = 0
    /\ totalBondE = 0
    /\ pc = "idle"
    /\ caller = "none"
    /\ scanI = 0
    /\ scanK = 0
    /\ oldCount = 0
    /\ curDt = 0
    /\ spawned = 0

Eng == EngState(atoms, reactionLog, totalBondE, bondFormedCount, bondBrokenCount)

\* the engine fields of e become the next state's
SetEng(e) ==
    /\ atoms' = e.atoms
    /\ reactionLog' = e.reactionLog
    /\ totalBondE' = e.totalBondE
    /\ bondFormedCount' = e.bondFormedCount
    /\ bondBrokenCount' = e.bondBrokenCount

\* ------------------------------------------------- updateBonds, the scan
\* phase 1: the first place at or after (i, k) that holds a bond, as
\* <<i, k>>, or <<>> when the loops are over
RECURSIVE NextBreak(_, _, _)
NextBreak(as, i, k) ==
    IF i >= Len(as) THEN <<>>
    ELSE IF k <= Len(as[i + 1].bonds) THEN <<i, k>>
    ELSE NextBreak(as, i + 1, 1)

\* phase 2: the pair after (i, j), or <<>> when the loops are over
NextPair(n, i, j) ==
    IF j + 1 < n THEN <<i, j + 1>>
    ELSE IF i + 2 < n THEN <<i + 1, i + 2>>
    ELSE <<>>
FirstPair(n) == IF n >= 2 THEN <<0, 1>> ELSE <<>>

\* control moves to phase 2, or past it
GotoForm(n) ==
    IF FirstPair(n) # <<>>
    THEN pc' = "form" /\ scanI' = 0 /\ scanK' = 1
    ELSE pc' = "finish" /\ scanI' = 0 /\ scanK' = 0

\* control moves to the place p of phase 1, or to phase 2
GotoBreak(p, n) ==
    IF p # <<>>
    THEN pc' = "break" /\ scanI' = p[1] /\ scanK' = p[2]
    ELSE GotoForm(n)

\* ----------------------------------------------------------------- actions
\* no call is running and the user still acts
InputOpen == pc = "idle" /\ stepCount <= InputUntil

\* Simulation::spawnAtom up to the call of updateBonds
SpawnAtom(atomicNumber, pos, vel) ==
    /\ InputOpen
    /\ spawned < MaxSpawns
    /\ spawned' = spawned + 1
    /\ atoms' = Append(atoms, NewAtom(atomicNumber, pos, vel))
    /\ caller' = "spawn"
    /\ GotoBreak(NextBreak(atoms', 0, 1), Len(atoms'))
    /\ UNCHANGED <<molecules, temperature, reactionLog, engSimTime, simTime,
                   stepCount, bondFormedCount, bondBrokenCount, totalBondE,
                   oldCount, curDt>>

\* updateBonds phase 1: one pass of the inner loop body
BreakStep ==
    /\ pc = "break"
    /\ LET e == BreakBody(Eng, scanI, scanK, temperature, engSimTime)
           kept == Len(e.atoms[scanI + 1].bonds) = Len(atoms[scanI + 1].bonds)
       IN  /\ SetEng(e)
           /\ GotoBreak(NextBreak(e.atoms, scanI, IF kept THEN scanK + 1 ELSE scanK),
                        Len(atoms))
    /\ UNCHANGED <<molecules, temperature, engSimTime, simTime, stepCount,
                   caller, oldCount, curDt, spawned>>

\* the pair (scanI, scanK) reaches removeOuterElectron with an empty list
FormUndefined ==
    /\ ~FormSkips(atoms, scanI, scanK)
    /\ RoutesIonic(atoms, scanI, scanK)
    /\ ~IonicDeclines(atoms, scanI, scanK, temperature)
    /\ atoms[DonorIdx(atoms, scanI, scanK) + 1].electrons = <<>>

\* variant: after a pair the scan looks at the bonds again
GotoNextPair_Rescan ==
    IF NextBreak(atoms', 0, 1) # <<>>
    THEN pc' = "break" /\ scanI' = NextBreak(atoms', 0, 1)[1]
                      /\ scanK' = NextBreak(atoms', 0, 1)[2]
    ELSE pc' = "finish" /\ scanI' = 0 /\ scanK' = 0

GotoNextPair ==
    LET p == NextPair(Len(atoms), scanI, scanK)
    IN  IF p # <<>> THEN pc' = "form" /\ scanI' = p[1] /\ scanK' = p[2]
        ELSE pc' = "finish" /\ scanI' = 0 /\ scanK' = 0

\* updateBonds phase 2: one pass of the inner loop body
FormStep ==
    /\ pc = "form"
    /\ ~FormUndefined
    /\ SetEng(FormBody(Eng, scanI, scanK, temperature, engSimTime,
                       CHOOSE g \in GarbageElectrons : TRUE))
    /\ GotoNextPair
    /\ UNCHANGED <<molecules, temperature, engSimTime, simTime, stepCount,
                   caller, oldCount, curDt, spawned>>

\* the same pass when removeOuterElectron runs on an empty list and the
\* program goes on with whatever back() returned
FormStepGarbage ==
    /\ pc = "form"
    /\ FormUndefined
    /\ \E g \in GarbageElectrons :
         SetEng(FormBody(Eng, scanI, scanK, temperature, engSimTime, g))
    /\ GotoNextPair
    /\ UNCHANGED <<molecules, temperature, engSimTime, simTime, stepCount,
                   caller, oldCount, curDt, spawned>>

\* the same pass when the undefined call ends the process
FormStepAbort ==
    /\ pc = "form"
    /\ FormUndefined
    /\ pc' = "crashed"
    /\ UNCHANGED <<atoms, molecules, temperature, reactionLog, engSimTime,
                   simTime, stepCount, bondFormedCount, bondBrokenCount,
                   totalBondE, caller, scanI, scanK, oldCount, curDt,
                   spawned>>

\* variant: step refreshes the tracker after every bonding pass
StepTracks_Always(as) == TrackerUpdate(molecules, as, Len(as))

\* Simulation::step, lines 100-109, after updateBonds
StepTracks(as) ==
    IF oldCount # bondFormedCount - bondBrokenCount \/ stepCount = 0
    THEN TrackerUpdate(molecules, as, Len(as))
    ELSE molecules

\* variant: spawnAtom refreshes the tracker by the rule of step
SpawnTracks_AsStep(as) == StepTracks(as)

\* Simulation::spawnAtom, line 24, after updateBonds
SpawnTracks(as) == TrackerUpdate(molecules, as, Len(as))

\* updateBonds line 411, and the rest of the caller
Finish ==
    /\ pc = "finish"
    /\ atoms' = RefreshValences(atoms)
    /\ IF caller = "spawn"
       THEN /\ molecules' = SpawnTracks(atoms')
            /\ UNCHANGED <<simTime, stepCount>>
       ELSE /\ molecules' = StepTracks(atoms')
            /\ simTime' = simTime + curDt
            /\ stepCount' = stepCount + 1
    /\ pc' = "idle"
    /\ caller' = "none"
    /\ oldCount' = 0
    /\ curDt' = 0
    /\ UNCHANGED <<temperature, reactionLog, engSimTime, bondFormedCount,
                   bondBrokenCount, totalBondE, scanI, scanK, spawned>>

\* Simulation::step on an empty collection: line 59
StepEmpty(dt) ==
    /\ pc = "idle"
    /\ atoms = <<>>
    /\ UNCHANGED vars

\* Simulation::step, lines 59-99 (to the call of updateBonds) or to the end
\* when this step does not update the bonds
Step(dt) ==
    /\ pc = "idle"
    /\ atoms # <<>>
    /\ stepCount < MaxSteps
    /\ atoms' = Integrate(atoms, dt, temperature)
    /\ engSimTime' = simTime
    /\ IF stepCount % BondInterval = 0
       THEN /\ oldCount' = bondFormedCount - bondBrokenCount
            /\ curDt' = dt
            /\ caller' = "step"
            /\ GotoBreak(NextBreak(atoms', 0, 1), Len(atoms'))
            /\ UNCHANGED <<simTime, stepCount>>
       ELSE /\ simTime' = simTime + dt
            /\ stepCount' = stepCount + 1
            /\ UNCHANGED <<pc, caller, scanI, scanK, oldCount, curDt>>
    /\ UNCHANGED <<molecules, temperature, reactionLog, bondFormedCount,
                   bondBrokenCount, totalBondE, spawned>>

\* Simulation::clear
Clear ==
    /\ InputOpen
    /\ atoms' = <<>>
    /\ reactionLog' = <<>>
    /\ simTime' = 0
    /\ stepCount' = 0
    /\ molecules' = TrackerUpdate(molecules, atoms', 0)
    /\ UNCHANGED <<temperature, engSimTime, bondFormedCount, bondBrokenCount,
                   totalBondE, pc, caller, scanI, scanK, oldCount, curDt,
                   spawned>>

\* the caller writes interactions().temperature (the slider is raised at any
\* time the user acts, and lowered while the world is empty)
SetTemperature(T) ==
    /\ InputOpen
    /\ (atoms = <<>> \/ T > temperature)
    /\ T # temperature
    /\ temperature' = T
    /\ UNCHANGED <<atoms, molecules, reactionLog, engSimTime, simTime, stepCount,
                   bondFormedCount, bondBrokenCount, totalBondE, pc,
                   caller, scanI, scanK, oldCount, curDt, spawned>>

Next ==
    \/ \E r \in SpawnSet :
         SpawnAtom(r[1], r[2], <<r[3] * Vrms(r[1], temperature), 0, 0>>)
    \/ BreakStep
    \/ FormStep
    \/ FormStepGarbage
    \/ FormStepAbort
    \/ Finish
    \/ \E dt \in DtSet : StepEmpty(dt)
    \/ \E dt \in DtSet : Step(dt)
    \/ Clear
    \/ \E T \in TempSet : SetTemperature(T)

Spec == Init /\ [][Next]_vars

\* =================================================================== claims
AtomIdx == 0..(Len(atoms) - 1)
\* the bond entries of atom i
BondsOf(i) == {atoms[i + 1].bonds[k] : k \in 1..Len(atoms[i + 1].bonds)}
\* some bond is present
SomeBond == \E i \in AtomIdx : atoms[i + 1].bonds # <<>>

\* ----------------------------------------------------------------------- C1
\* the entry that mirrors the entry b of atom i, as the partner holds it
Mirror(i, b) == [b EXCEPT !.otherAtomIdx = i]

\* C1: in every reachable state, inside a bonding cycle as between calls,
\* every bond entry A->B has a mirrored entry B->A in B's list with the same
\* type, order, strength, equilibrium distance and Morse width; so a cycle
\* that removes one entry has removed the other with it.
C1_BondsMirrored ==
    \A i \in AtomIdx : \A b \in BondsOf(i) :
        /\ b.otherAtomIdx \in AtomIdx
        /\ Mirror(i, b) \in BondsOf(b.otherAtomIdx)

\* a cycle has broken a bond, and bonds are present
C1_Witness == bondBrokenCount > 0 /\ SomeBond /\ pc = "idle"

\* ----------------------------------------------------------------------- C2
\* the valence invariant of one atom
ValenceFresh(a) ==
    a.effectiveValence =
        Max(0, Element(a.elementZ).valenceElectrons - SumOrders(a.bonds))

\* C2: effectiveValence = max(0, valence - sum of bond orders) for every
\* atom in every state, the states inside updateBonds (right after one
\* formation or one break) included.
C2_ValenceNeverStale == \A i \in AtomIdx : ValenceFresh(atoms[i + 1])


\* ----------------------------------------------------------------------- C3
\* C3: charge = Z - (number of electrons) for every atom in every state.
C3_ChargeMatchesElectrons ==
    \A i \in AtomIdx :
        atoms[i + 1].charge = atoms[i + 1].elementZ - Len(atoms[i + 1].electrons)


\* ----------------------------------------------------------------------- C4
\* the temperature the end-to-end scenarios call low, K
LowT == CHOOSE T \in TempSet : \A U \in TempSet : T <= U
\* the place (from 1) of the only atom of element z, when there is one
PlaceOf(z) == CHOOSE k \in 1..Len(atoms) : atoms[k].elementZ = z
\* the collection is one sodium and one chlorine
SaltPair ==
    /\ Len(atoms) = 2
    /\ {atoms[1].elementZ, atoms[2].elementZ} = {11, 17}
\* one ionic bond joins them and exactly one electron has moved
SaltBonded ==
    LET na == atoms[PlaceOf(11)]
        cl == atoms[PlaceOf(17)]
    IN  /\ Len(na.bonds) = 1 /\ Len(cl.bonds) = 1
        /\ na.bonds[1].type = IONIC /\ cl.bonds[1].type = IONIC
        /\ na.bonds[1].otherAtomIdx = PlaceOf(17) - 1
        /\ cl.bonds[1].otherAtomIdx = PlaceOf(11) - 1
        /\ na.charge = 1 /\ cl.charge = -1
        /\ Len(na.electrons) = 10 /\ Len(cl.electrons) = 18

\* C4: whenever the collection is one sodium and one chlorine spawned within
\* bonding range at low temperature, after the spawns and after any number
\* of steps there is exactly one ionic bond between them, sodium has charge
\* +1 and 10 electrons, chlorine has charge -1 and 18 electrons.
C4_SaltForms ==
    (pc = "idle" /\ SaltPair /\ temperature = LowT) => SaltBonded

\* the same when the sodium was spawned first
C4_SaltFormsSodiumFirst ==
    (pc = "idle" /\ SaltPair /\ temperature = LowT /\ atoms[1].elementZ = 11)
        => SaltBonded

\* ----------------------------------------------------------------------- C5
\* the collection is one oxygen and two hydrogens
WaterAtoms ==
    /\ Len(atoms) = 3
    /\ Cardinality({k \in 1..3 : atoms[k].elementZ = 8}) = 1
    /\ Cardinality({k \in 1..3 : atoms[k].elementZ = 1}) = 2
\* the bonds of atom a are covalent bonds to exactly the atoms of the set to
CovalentlyBondedTo(a, to) ==
    /\ Len(a.bonds) = Cardinality(to)
    /\ \A k \in 1..Len(a.bonds) :
          a.bonds[k].type = COVALENT /\ a.bonds[k].otherAtomIdx \in to
    /\ \A j \in to : HasBondTo(a, j)
\* two covalent O-H bonds, no H-H bond, and one molecule "H2O"
WaterFormed ==
    LET o == PlaceOf(8)
        hs == {k \in 1..3 : atoms[k].elementZ = 1}
    IN  /\ CovalentlyBondedTo(atoms[o], {h - 1 : h \in hs})
        /\ \A h \in hs : CovalentlyBondedTo(atoms[h], {o - 1})
        /\ Len(molecules) = 1
        /\ Len(molecules[1].atomIndices) = 3
        /\ molecules[1].formula = "H2O"

\* each hydrogen is nearer to the oxygen than the bonding range
HydrogensInRange ==
    \A h \in {k \in 1..3 : atoms[k].elementZ = 1} :
        Dist(atoms, PlaceOf(8) - 1, h - 1) < bondingRange

SingleBondPasses(a, b) ==
    ~CovalentThermalReject(
        MulDiv(estimateBondEnergy(a, b, 1),
               OverlapFactor(VLen(Sep(a.pos, b.pos)), CovalentEqDist(a, b)), 1000),
        temperature)
\* the oxygen was spawned first, then the two hydrogens, no step has run
\* (every atom is where it was spawned), and each hydrogen is where the
\* energy test passes for its bond to the oxygen
WaterSpawned ==
    /\ pc = "idle" /\ stepCount = 0
    /\ Len(atoms) = 3
    /\ atoms[1].elementZ = 8 /\ atoms[2].elementZ = 1 /\ atoms[3].elementZ = 1
    /\ SingleBondPasses(atoms[1], atoms[2])
    /\ SingleBondPasses(atoms[1], atoms[3])

MaxCarbon == 3
MaxHydrogen == 8
FormulaCounts ==
    [C : 0..MaxCarbon, H : 0..MaxHydrogen, He : 0..1, Li : 0..1,
     O : 0..1, Na : 0..1, Cl : 0..1]

\* n fresh atoms of one element
Fresh(z, n) == [k \in 1..n |-> NewAtom(z, Origin, Zero3)]
\* spread over a grid of 6 A, beyond the bonding range of each other
OnGrid(as) ==
    [k \in 1..Len(as) |->
       [as[k] EXCEPT !.pos = <<600 * PosDen * (k % 5), 600 * PosDen * (k \div 5), 0>>]]
AtomsOf(c) ==
    OnGrid(Fresh(17, c.Cl) \o Fresh(1, c.H) \o Fresh(8, c.O) \o Fresh(6, c.C)
             \o Fresh(11, c.Na) \o Fresh(2, c.He) \o Fresh(3, c.Li))

\* orders of the index list 0..n-1
Ascending(n) == [k \in 1..n |-> k - 1]
Descending(n) == [k \in 1..n |-> n - k]
Rotated(n) == [k \in 1..n |-> (k + (n \div 2)) % n]
IndexOrders(n) == {Ascending(n), Descending(n), Rotated(n)}

FormulaInit ==
    /\ \E c \in FormulaCounts :
         /\ c.C + c.H + c.He + c.Li + c.O + c.Na + c.Cl >= 2
         /\ atoms = AtomsOf(c)
    /\ molecules = <<>>
    /\ temperature = 300
    /\ reactionLog = <<>>
    /\ engSimTime = 0
    /\ simTime = 0
    /\ stepCount = 0
    /\ bondFormedCount = 0
    /\ bondBrokenCount = 0
    /\ totalBondE = 0
    /\ pc = "idle"
    /\ caller = "none"
    /\ scanI = 0
    /\ scanK = 0
    /\ oldCount = 0
    /\ curDt = 0
    /\ spawned = 0

\* one molecule built from the whole collection, as lines 39-60 build it
BuildMolecule(order) ==
    /\ molecules = <<>>
    /\ molecules' = <<MkMolecule(atoms, 0, order)>>
    /\ UNCHANGED <<atoms, temperature, reactionLog, engSimTime, simTime,
                   stepCount, bondFormedCount, bondBrokenCount, totalBondE,
                   pc, caller, scanI, scanK, oldCount, curDt, spawned>>

FormulaNext == \E order \in IndexOrders(Len(atoms)) : BuildMolecule(order)
FormulaSpec == FormulaInit /\ [][FormulaNext]_vars

\* Hill order over the symbols of the table: carbon, hydrogen, then the
\* others alphabetically
HillOrder == <<"C", "H", "Cl", "He", "Li", "Na", "O">>
SymbolCount(m, sym) ==
    Cardinality({i \in 0..(Len(atoms) - 1) :
                   /\ \E k \in 1..Len(m.atomIndices) : m.atomIndices[k] = i
                   /\ Element(atoms[i + 1].elementZ).symbol = sym})
HillTerm(m, sym) ==
    LET n == SymbolCount(m, sym)
    IN  IF n = 0 THEN "" ELSE IF n = 1 THEN sym ELSE sym \o ToString(n)
RECURSIVE HillFrom(_, _)
HillFrom(m, k) ==
    IF k > Len(HillOrder) THEN ""
    ELSE HillTerm(m, HillOrder[k]) \o HillFrom(m, k + 1)
\* the molecule holds exactly these counts and nothing else
HoldsOnly(m, c, h, o, na, cl) ==
    /\ SymbolCount(m, "C") = c /\ SymbolCount(m, "H") = h
    /\ SymbolCount(m, "O") = o /\ SymbolCount(m, "Na") = na
    /\ SymbolCount(m, "Cl") = cl
    /\ Len(m.atomIndices) = c + h + o + na + cl

\* C6: every molecule of two or more atoms carries the Hill formula of its
\* atoms (carbon first, hydrogen second, the rest alphabetically, a count
\* shown only when above 1), whatever the order of its index list: three
\* carbons and eight hydrogens give "C3H8", two hydrogens and an oxygen
\* "H2O", a sodium and a chlorine "ClNa".
C6_HillFormula ==
    \A k \in 1..Len(molecules) :
       LET m == molecules[k]
       IN  Len(m.atomIndices) >= 2 =>
             /\ m.formula = HillFrom(m, 1)
             /\ HoldsOnly(m, 3, 8, 0, 0, 0) => m.formula = "C3H8"
             /\ HoldsOnly(m, 0, 2, 1, 0, 0) => m.formula = "H2O"
             /\ HoldsOnly(m, 0, 0, 0, 1, 1) => m.formula = "ClNa"
C6_Witness ==
    /\ Len(molecules) = 1
    /\ molecules[1].atomIndices = Descending(Len(atoms))
    /\ molecules[1].formula = "C3H8"


\* ----------------------------------------------------------------------- C7
\* a bond entry joins i and j, in either list
Joined(as, i, j) == HasBondTo(as[i + 1], j) \/ HasBondTo(as[j + 1], i)
\* the atoms a path of bonds reaches from the set S
RECURSIVE PathClosure(_, _)
PathClosure(as, S) ==
    LET T == S \cup {j \in 0..(Len(as) - 1) : \E i \in S : Joined(as, i, j)}
    IN  IF T = S THEN S ELSE PathClosure(as, T)
\* a bound on the places of one index list
MaxPlace(mols) == Max(0, SumSeq([k \in 1..Len(mols) |-> Len(mols[k].atomIndices)]))
\* the places <<k, p>> of the molecule list that hold atom index i
PlacesOf(mols, i) ==
    {kp \in (1..Len(mols)) \X (1..MaxPlace(mols)) :
        kp[2] <= Len(mols[kp[1]].atomIndices) /\ mols[kp[1]].atomIndices[kp[2]] = i}
\* the molecule list is the set of connected components of the bond graph
IsComponents(mols, as) ==
    LET n == Len(as)
        molOf(i) == CHOOSE k \in 1..Len(mols) :
                       \E p \in 1..Len(mols[k].atomIndices) : mols[k].atomIndices[p] = i
    IN  /\ \A k \in 1..Len(mols) :
             /\ mols[k].atomIndices # <<>>
             /\ \A p \in 1..Len(mols[k].atomIndices) :
                   mols[k].atomIndices[p] \in 0..(n - 1)
        /\ \A i \in 0..(n - 1) : Cardinality(PlacesOf(mols, i)) = 1
        /\ \A i, j \in 0..(n - 1) : (molOf(i) = molOf(j)) <=> (j \in PathClosure(as, {i}))
        /\ \A i \in 0..(n - 1) :
             as[i + 1].bonds = <<>> => mols[molOf(i)].atomIndices = <<i>>
\* this step ends a call that runs MoleculeTracker::update
TrackerRuns ==
    \/ pc = "finish" /\ caller = "spawn"
    \/ pc = "finish" /\ caller = "step"
         /\ (oldCount # bondFormedCount - bondBrokenCount \/ stepCount = 0)
    \/ pc = "idle" /\ atoms # <<>> /\ atoms' = <<>>

\* C7: after every call of MoleculeTracker::update the molecule list is
\* exactly the set of connected components of the bond graph: every atom
\* index appears in exactly one molecule, two atoms share a molecule iff a
\* path of bonds joins them, and a bondless atom is a one-atom molecule.
C7_TrackerComponents == [][TrackerRuns => IsComponents(molecules', atoms')]_vars
\* a list the tracker has produced with a bonded molecule and a lone atom
C7_Witness ==
    /\ pc = "idle"
    /\ Len(atoms) = 3
    /\ molecules = TrackerUpdate(molecules, atoms, Len(atoms))
    /\ IsComponents(molecules, atoms)
    /\ \E k, l \in 1..Len(molecules) :
          Len(molecules[k].atomIndices) = 2 /\ Len(molecules[l].atomIndices) = 1

\* ----------------------------------------------------------------------- C8
\* C8: the tracker run twice in a row on the same atoms gives the same list
\* both times (components, ids, formulas and aggregates), whatever list was
\* there before the first run.
C8_TrackerIdempotent ==
    LET once == TrackerUpdate(molecules, atoms, Len(atoms))
        twice == TrackerUpdate(once, atoms, Len(atoms))
    IN  twice = once
\* the list in place is the tracker's, with a bonded molecule in it, and a
\* second run reproduces it
C8_Witness ==
    /\ pc = "idle"
    /\ SomeBond
    /\ Len(molecules) >= 2
    /\ TrackerUpdate(molecules, atoms, Len(atoms)) = molecules
    /\ \E k \in 1..Len(molecules) : molecules[k].id = 1 /\ molecules[k].formula = "H2"

\* ----------------------------------------------------------------------- C9
\* temperatures the decisions are compared at, K
ThermalSet == {10, 300, 8000, 10000}
\* the pairs i < j that phase 2 passes to a bond attempt
AttemptedPairs ==
    {ij \in AtomIdx \X AtomIdx : ij[1] < ij[2] /\ ~FormSkips(atoms, ij[1], ij[2])}

\* C9: for every pair state the checker reaches, an ionic or a covalent bond
\* attempt that declines at a temperature T declines at every higher
\* temperature; an exothermic ionic pairing rejected because |dE| < 2 kB T
\* stays rejected as T rises.
C9_ThermalOnlyRejects ==
    \A ij \in {p \in AtomIdx \X AtomIdx : p[1] < p[2]} :
       LET ionicDeclinesAt == {T \in ThermalSet : IonicDeclines(atoms, ij[1], ij[2], T)}
           covalentDeclinesAt ==
               {T \in ThermalSet : CovalentDeclines(atoms, ij[1], ij[2], T)}
           deltaE == IonicDeltaE(atoms, ij[1], ij[2])
           weakAt == {T \in ThermalSet : deltaE <= 0 /\ IonicThermalReject(deltaE, T)}
       IN  \A T, T2 \in ThermalSet :
              T < T2 =>
                 /\ T \in ionicDeclinesAt => T2 \in ionicDeclinesAt
                 /\ T \in covalentDeclinesAt => T2 \in covalentDeclinesAt
                 /\ T \in weakAt => T2 \in weakAt /\ T2 \in ionicDeclinesAt
\* an exothermic ionic pair about to be attempted that bonds at the engine's
\* temperature and is rejected by the thermal check at 8000 K and above
C9_Witness ==
    /\ pc = "form"
    /\ \E ij \in AttemptedPairs :
          /\ ij = <<scanI, scanK>>
          /\ RoutesIonic(atoms, ij[1], ij[2])
          /\ IonicDeltaE(atoms, ij[1], ij[2]) < 0
          /\ ~IonicDeclines(atoms, ij[1], ij[2], temperature)
          /\ IonicThermalReject(IonicDeltaE(atoms, ij[1], ij[2]), 8000)
          /\ IonicDeclines(atoms, ij[1], ij[2], 10000)

\* ---------------------------------------------------------------------- C10
RECURSIVE ForceSum(_)
ForceSum(as) == IF as = <<>> THEN Zero3 ELSE VAdd(Head(as).force, ForceSum(Tail(as)))
\* the atoms with the force accumulators cleared
Unforced(as) == [k \in 1..Len(as) |-> [as[k] EXCEPT !.force = Zero3]]

\* C10: after every call of computeForces the force accumulators of all
\* atoms sum to zero, the pairwise and the angular contributions together.
C10_ForcesSumToZero == ForceSum(atoms) = Zero3
\* forces have been computed on three atoms, one of them the centre of two
\* bonds whose angle draws a restoring force
C10_Witness ==
    /\ stepCount > 0
    /\ \E k \in 1..Len(atoms) : atoms[k].force # Zero3
    /\ \E k \in 1..Len(atoms) : Len(atoms[k].bonds) = 2
    /\ applyAngleForces(Unforced(atoms)) # Unforced(atoms)


\* ---------------------------------------------------------------------- C11
\* C11: every call of clear(), from whatever state it is made, returns with
\* the atom collection, the molecule list and the reaction log empty and
\* with simTime and stepCount 0.
C11_ClearEmpties ==
    [][Clear => /\ atoms' = <<>> /\ molecules' = <<>> /\ reactionLog' = <<>>
                /\ simTime' = 0 /\ stepCount' = 0]_vars
\* clear() has returned after atoms were spawned, bonded, logged and stepped
\* (the engine's counters tell of them)
C11_Witness ==
    /\ pc = "idle" /\ atoms = <<>> /\ molecules = <<>> /\ reactionLog = <<>>
    /\ simTime = 0 /\ stepCount = 0
    /\ spawned >= 2 /\ bondFormedCount > 0 /\ bondBrokenCount > 0


\* ---------------------------------------------------------------------- C12
\* C12: spawnAtom runs one bonding pass and then one tracker refresh: the
\* call enters the pass as it appends the atom, the molecule list is not
\* touched during the pass, and the step that ends the pass returns with a
\* molecule list that holds the new atom's index and is the set of connected
\* components of the bond graph of that moment, whatever stepCount is.
C12_SpawnRefreshes ==
    [][/\ (pc = "idle" /\ Len(atoms') = Len(atoms) + 1)
            => (caller' = "spawn" /\ pc' \in {"break", "form", "finish"})
       /\ (caller = "spawn" /\ pc # "finish") => molecules' = molecules
       /\ (caller = "spawn" /\ pc = "finish")
            => /\ pc' = "idle"
               /\ stepCount' = stepCount
               /\ PlacesOf(molecules', Len(atoms') - 1) # {}
               /\ IsComponents(molecules', atoms')]_vars
\* a spawn has returned between two bonding steps (stepCount is 1; the new
\* atom has met no force computation) with the new atom bonded and listed
\* in a two-atom molecule
C12_Witness ==
    /\ pc = "idle" /\ stepCount = 1 /\ Len(atoms) = 2
    /\ atoms[2].force = Zero3 /\ atoms[2].vel = Zero3
    /\ HasBondTo(atoms[2], 0)
    /\ Len(molecules) = 1 /\ Len(molecules[1].atomIndices) = 2


\* ---------------------------------------------------------------------- C13
\* the sequence s is the beginning of the sequence t
IsPrefix(s, t) == Len(s) <= Len(t) /\ SubSeq(t, 1, Len(s)) = s

\* C13: the reaction log is append-only under spawnAtom and step: every
\* step of either leaves the log it found as an unchanged prefix of the log
\* it leaves; only clear() removes entries.
C13_LogAppendOnly == [][Clear \/ IsPrefix(reactionLog, reactionLog')]_vars
\* a log of a formation at a spawn followed by a break and a formation in
\* a step
C13_Witness ==
    /\ pc = "idle" /\ stepCount > 0
    /\ Len(reactionLog) >= 3
    /\ reactionLog[1].kind = "ionic bond"
    /\ reactionLog[2].kind = "bond broken"
    /\ reactionLog[3].kind # "bond broken"


\* ---------------------------------------------------------------------- C14
\* C14: removeOuterElectron is only ever called on an atom with electrons:
\* the bonding pass never stands at a pair that passes every test of
\* tryIonicBond while the donor's electron list is empty. (The break side
\* tests electrons.empty() itself, interaction.cpp 358.)
C14_ElectronsChecked == ~(pc = "form" /\ FormUndefined)


\* ---------------------------------------------------------------------- C15
\* the walls: atoms spawned next to, on and beyond the faces of the world
Face == worldSize * PosDen
\* the spawn requests <<atomicNumber, pos, s>>, velocity s[c] * vrms on axis c
FaceSpawnSet ==
    { <<1, <<Face, 0, 0>>, <<1, 0, 0>>>>,
      <<1, <<-Face + 50, 0, 0>>, <<-1, 0, 0>>>>,
      <<8, <<0, Face - 10, -Face + 10>>, <<0, 1, -1>>>>,
      <<6, <<0, 0, Face + 500>>, <<0, 0, 0>>>>,
      <<1, <<0, -Face, 0>>, <<0, 1, 0>>>>,
      <<6, Origin, <<1, 0, 0>>>> }

BoundaryNext ==
    \/ \E r \in FaceSpawnSet :
         SpawnAtom(r[1], r[2], VScale(r[3], Vrms(r[1], temperature), 1))
    \/ BreakStep
    \/ FormStep
    \/ Finish
    \/ \E dt \in DtSet : Step(dt)

BoundarySpec == Init /\ [][BoundaryNext]_vars

\* a step(dt) on a non-empty collection starts here
StepTaken(dt) ==
    /\ pc = "idle" /\ atoms # <<>>
    /\ \/ stepCount' = stepCount + 1 /\ simTime' = simTime + dt
       \/ caller' = "step" /\ curDt' = dt
\* the coordinate c of atom a after the first kick and the drift, before
\* applyBoundary
RawDrift(a, dt, c) ==
    HalfKick(a, dt).pos[c] + Quot(dt * HalfKick(a, dt).vel[c], DtDen)

\* C15: after every step on a non-empty collection every coordinate of every
\* atom lies in [-worldSize, +worldSize]: a coordinate that the drift carries
\* beyond a face is set to the face value and the velocity component on that
\* axis is negated and halved by applyBoundary; the bonding pass that may
\* follow in the same step moves no atom, and no error is reported.
C15_StaysInWorld ==
    [][/\ \A dt \in DtSet : StepTaken(dt) =>
            /\ pc' # "crashed"
            /\ Len(atoms') = Len(atoms)
            /\ \A k \in 1..Len(atoms) : \A c \in 1..3 :
                 /\ atoms'[k].pos[c] \in (-Face)..Face
                 /\ RawDrift(atoms[k], dt, c) > Face =>
                      /\ atoms'[k].pos[c] = Face
                      /\ Drift(HalfKick(atoms[k], dt), dt).vel[c]
                           = -Quot(HalfKick(atoms[k], dt).vel[c], 2)
                 /\ RawDrift(atoms[k], dt, c) < -Face =>
                      /\ atoms'[k].pos[c] = -Face
                      /\ Drift(HalfKick(atoms[k], dt), dt).vel[c]
                           = -Quot(HalfKick(atoms[k], dt).vel[c], 2)
       /\ (caller = "step" /\ pc \in {"break", "form", "finish"}) =>
            /\ Len(atoms') = Len(atoms)
            /\ \A k \in 1..Len(atoms) : atoms'[k].pos = atoms[k].pos]_vars

\* one step has carried the oxygen beyond two faces at once: it stands on
\* both, moving inwards
C15_Witness ==
    /\ pc = "idle" /\ stepCount = 1 /\ Len(atoms) = 1
    /\ atoms[1].elementZ = 8
    /\ atoms[1].pos[2] = Face /\ atoms[1].vel[2] < 0
    /\ atoms[1].pos[3] = -Face /\ atoms[1].vel[3] > 0


\* ---------------------------------------------------------------------- C16
\* the bonding pass stands at an ionic bond between the positive atom p and
\* the negative atom q, reached from either end
AtIonicBond(p, q) ==
    /\ pc = "break"
    /\ {p, q} = {scanI, atoms[scanI + 1].bonds[scanK].otherAtomIdx}
    /\ atoms[scanI + 1].bonds[scanK].type = IONIC
    /\ atoms[p + 1].charge > 0
    /\ atoms[q + 1].charge < 0

\* C16: whenever a cycle breaks an ionic bond whose positive endpoint still
\* has charge > 0 and whose negative endpoint holds at least one electron,
\* one electron moves from the negative endpoint back to the positive one,
\* whichever of the two has the lower index.
C16_ElectronReturned ==
    [][\A p \in AtomIdx : \A q \in AtomIdx :
         (/\ AtIonicBond(p, q)
          /\ bondBrokenCount' = bondBrokenCount + 1
          /\ atoms[q + 1].electrons # <<>>)
         => /\ Len(atoms'[p + 1].electrons) = Len(atoms[p + 1].electrons) + 1
            /\ Len(atoms'[q + 1].electrons) = Len(atoms[q + 1].electrons) - 1
            /\ atoms'[p + 1].charge = atoms[p + 1].charge - 1
            /\ atoms'[q + 1].charge = atoms[q + 1].charge + 1]_vars


\* ---------------------------------------------------------------------- C17
\* the number of bond entries in the collection
BondEntries(as) == SumSeq([k \in 1..Len(as) |-> Len(as[k].bonds)])
\* the pair the formation scan stands at passes the tests of lines 383-399
\* and the attempt it is routed to does not decline
PairBonds ==
    /\ ~FormSkips(atoms, scanI, scanK)
    /\ IF RoutesIonic(atoms, scanI, scanK)
       THEN ~IonicDeclines(atoms, scanI, scanK, temperature)
       ELSE ~CovalentDeclines(atoms, scanI, scanK, temperature)

\* C17: within one updateBonds call every break decision and removal comes
\* before the first formation attempt: a call that finds bonds starts in the
\* break scan, the break scan forms nothing, the formation scan starts at the
\* pair (0, 1) once the break scan is over, visits every pair i < j in order,
\* breaks nothing and never goes back to the break scan; a pair that is
\* eligible when the formation scan reaches it is bonded there, whether or
\* not its bond was broken earlier in the same call.
C17_BreaksBeforeForms ==
    [][/\ (pc = "idle" /\ pc' # "idle" /\ BondEntries(atoms') > 0) => pc' = "break"
       /\ pc = "break" =>
            /\ bondFormedCount' = bondFormedCount
            /\ BondEntries(atoms') <= BondEntries(atoms)
            /\ pc' \in {"break", "form", "finish"}
       /\ (pc # "form" /\ pc' = "form") => (scanI' = 0 /\ scanK' = 1)
       /\ (pc # "form" /\ pc' = "finish" /\ pc # "finish") => Len(atoms') < 2
       /\ pc = "form" =>
            /\ bondBrokenCount' = bondBrokenCount
            /\ BondEntries(atoms') >= BondEntries(atoms)
            /\ pc' \in {"form", "finish", "crashed"}
            /\ pc' = "form" =>
                 \/ scanI' = scanI /\ scanK' = scanK + 1
                 \/ scanK = Len(atoms) - 1 /\ scanI' = scanI + 1
                                           /\ scanK' = scanI' + 1
            /\ pc' = "finish" => (scanI = Len(atoms) - 2 /\ scanK = Len(atoms) - 1)
            /\ (PairBonds /\ pc' # "crashed") => HasBondTo(atoms'[scanI + 1], scanK)]_vars

\* the first step of a world of two atoms spawned bonded: its bonding pass
\* has broken their bond and formed it again
C17_Witness ==
    /\ pc = "finish" /\ caller = "step" /\ stepCount = 0
    /\ spawned = 2 /\ Len(atoms) = 2
    /\ bondFormedCount = 2 /\ bondBrokenCount = 1
    /\ HasBondTo(atoms[1], 1) /\ HasBondTo(atoms[2], 0)
    /\ Len(reactionLog) = 3 /\ reactionLog[2].kind = "bond broken"


\* ---------------------------------------------------------------------- C18
\* a call of step on a non-empty collection begins: the integration is done
\* and the simulation clock has been handed to the engine
StepBegins ==
    /\ pc = "idle" /\ atoms # <<>>
    /\ Len(atoms') = Len(atoms)
    /\ (stepCount' = stepCount + 1 \/ caller' = "step")
\* the bonds, the counters and the log are as they were
BondingIdle ==
    /\ bondFormedCount' = bondFormedCount /\ bondBrokenCount' = bondBrokenCount
    /\ reactionLog' = reactionLog /\ totalBondE' = totalBondE
    /\ \A k \in 1..Len(atoms) : atoms'[k].bonds = atoms[k].bonds

C19_ListIsComponents == pc = "idle" => IsComponents(molecules, atoms)


\* ---------------------------------------------------------------------- C20
\* the pair the formation scan stands at is routed to the ionic attempt,
\* which declines
IonicDeclined ==
    /\ pc = "form"
    /\ ~FormSkips(atoms, scanI, scanK)
    /\ DeltaChi(atoms, scanI, scanK) > ionicThreshold
    /\ IonicDeclines(atoms, scanI, scanK, temperature)

\* C20: every bond is IONIC or COVALENT; an IONIC bond joins atoms whose
\* electronegativities differ by more than 1.7 and has order 1; a COVALENT
\* bond joins atoms whose electronegativities differ by 1.7 at most; a pair
\* above the threshold whose ionic attempt declines gets no covalent bond
\* (the scan leaves every atom as it was).
C20_BondTypes ==
    [][/\ \A i \in 0..(Len(atoms') - 1) : \A k \in 1..Len(atoms'[i + 1].bonds) :
            LET bond == atoms'[i + 1].bonds[k]
            IN  /\ bond.type \in {IONIC, COVALENT}
                /\ bond.otherAtomIdx \in 0..(Len(atoms') - 1)
                /\ bond.type = IONIC =>
                     /\ DeltaChi(atoms', i, bond.otherAtomIdx) > ionicThreshold
                     /\ bond.order = 1
                /\ bond.type = COVALENT =>
                     DeltaChi(atoms', i, bond.otherAtomIdx) <= ionicThreshold
       /\ IonicDeclined => (atoms' = atoms /\ bondFormedCount' = bondFormedCount)]_vars

\* an ionic and a covalent bond stand side by side, and a pair in range and
\* above the threshold has been left without a bond
C20_Witness ==
    /\ pc = "idle" /\ Len(atoms) = 3
    /\ \E i \in AtomIdx : \E k \in 1..Len(atoms[i + 1].bonds) :
          atoms[i + 1].bonds[k].type = IONIC
    /\ \E i \in AtomIdx : \E k \in 1..Len(atoms[i + 1].bonds) :
          atoms[i + 1].bonds[k].type = COVALENT
    /\ \E i, j \in AtomIdx :
          /\ i < j /\ ~FormSkips(atoms, i, j)
          /\ DeltaChi(atoms, i, j) > ionicThreshold
          /\ IonicDeclines(atoms, i, j, temperature)

\* ---------------------------------------------------------------------- C21
\* an atomic number PeriodicTable::get has no record for
AbsentZ == 0
\* the speed of an atom without mass, in 1/PosDen pm/tu: vrms is
\* sqrt(3kT / 0), and the distribution over (-vrms, vrms) is not defined
MasslessSpeeds == {0, 100000000}
\* the spawn requests <<atomicNumber, pos, vel>> with helium and an atom of
\* no known element among those that bond
InertSpawnSet ==
    { <<2, Origin, Zero3>>, <<2, AlongX, Zero3>>,
      <<17, Origin, Zero3>>, <<3, Origin, Zero3>>, <<8, Origin, Zero3>>,
      <<1, AlongY, Zero3>> }
      \cup { <<AbsentZ, Origin, <<v, 0, 0>>>> : v \in MasslessSpeeds }

InertNext ==
    \/ \E r \in InertSpawnSet : SpawnAtom(r[1], r[2], r[3])
    \/ BreakStep
    \/ FormStep
    \/ FormStepGarbage
    \/ FormStepAbort
    \/ Finish
    \/ \E dt \in DtSet : StepEmpty(dt)
    \/ \E dt \in DtSet : Step(dt)
    \/ Clear
    \/ \E T \in TempSet : SetTemperature(T)

InertSpec == Init /\ [][InertNext]_vars

\* the atom is of a noble gas, or of an element of unknown (zero)
\* electronegativity
Inert(a) ==
    \/ Element(a.elementZ).category = "noble_gas"
    \/ Element(a.elementZ).electronegativity = 0

\* C21: in every reachable state an atom whose element is a noble gas, and an
\* atom whose element has zero electronegativity (an atom spawned with an
\* atomic number absent from the table included), has an empty bond list and
\* charge 0, and no other atom holds a bond entry to it.
C21_InertAtomsUnbonded ==
    \A i \in AtomIdx :
       Inert(atoms[i + 1]) =>
         /\ atoms[i + 1].bonds = <<>>
         /\ atoms[i + 1].charge = 0
         /\ \A j \in AtomIdx : ~HasBondTo(atoms[j + 1], i)

\* a bonding pass of a step is over with a helium atom, an atom of no known
\* element and a chlorine all in range of each other
C21_Witness ==
    /\ pc = "finish" /\ caller = "step" /\ Len(atoms) = 3
    /\ \E i, j, k \in AtomIdx :
          /\ atoms[i + 1].elementZ = 2
          /\ atoms[j + 1].elementZ = AbsentZ
          /\ atoms[k + 1].elementZ = 17
          /\ Dist(atoms, i, k) <= bondingRange
          /\ Dist(atoms, j, k) <= bondingRange
          /\ Dist(atoms, i, j) <= bondingRange

\* ---------------------------------------------------------------------- C22
\* the bond entry of atom a to atom j (a holds one)
EntryTo(a, j) == a.bonds[CHOOSE k \in 1..Len(a.bonds) : a.bonds[k].otherAtomIdx = j]
\* this step of the formation scan gives the pair it stands at a covalent bond
CovalentFormed ==
    /\ pc = "form"
    /\ ~HasBondTo(atoms[scanI + 1], scanK)
    /\ HasBondTo(atoms'[scanI + 1], scanK)
    /\ EntryTo(atoms'[scanI + 1], scanK).type = COVALENT

\* C22: a covalent bond is formed only when both atoms have at least one
\* available valence electron; its order is min(available valence of A,
\* available valence of B, 3) as they are just before the formation, so it is
\* in 1..3, and after the formation neither atom's total bond order exceeds
\* its element's valence-electron count.
C22_CovalentOrder ==
    [][CovalentFormed =>
         LET a == atoms[scanI + 1]
             b == atoms[scanK + 1]
             availA == Max(0, Element(a.elementZ).valenceElectrons - SumOrders(a.bonds))
             availB == Max(0, Element(b.elementZ).valenceElectrons - SumOrders(b.bonds))
             order == EntryTo(atoms'[scanI + 1], scanK).order
         IN  /\ availA >= 1 /\ availB >= 1
             /\ order = Min(Min(availA, availB), 3)
             /\ EntryTo(atoms'[scanK + 1], scanI).order = order
             /\ order \in 1..3
             /\ SumOrders(atoms'[scanI + 1].bonds)
                  <= Element(a.elementZ).valenceElectrons
             /\ SumOrders(atoms'[scanK + 1].bonds)
                  <= Element(b.elementZ).valenceElectrons]_vars

\* an atom holds covalent bonds of two orders, the second of them formed last
C22_Witness ==
    /\ pc \in {"form", "finish"}
    /\ reactionLog # <<>>
    /\ reactionLog[Len(reactionLog)].kind = "covalent bond"
    /\ \E i \in AtomIdx : \E k, l \in 1..Len(atoms[i + 1].bonds) :
          /\ atoms[i + 1].bonds[k].type = COVALENT
          /\ atoms[i + 1].bonds[l].type = COVALENT
          /\ atoms[i + 1].bonds[k].order = 3
          /\ atoms[i + 1].bonds[l].order < 3

\* ---------------------------------------------------------------------- C23
\* the formation scan stands at a pair it passes to an attempt
PairAttempted == pc = "form" /\ ~FormSkips(atoms, scanI, scanK)
\* the break scan stands at a bond that shouldBreakBond gives up
BondGivenUp ==
    /\ pc = "break"
    /\ shouldBreakBond(atoms[scanI + 1].bonds[scanK],
                       Dist(atoms, scanI, atoms[scanI + 1].bonds[scanK].otherAtomIdx),
                       temperature)
\* the engine's records are as they were
EngineUnchanged ==
    /\ atoms' = atoms /\ reactionLog' = reactionLog
    /\ bondFormedCount' = bondFormedCount /\ bondBrokenCount' = bondBrokenCount
    /\ totalBondE' = totalBondE
\* one entry of the given kinds is appended to the log
OneEntry(kinds) ==
    /\ Len(reactionLog') = Len(reactionLog) + 1
    /\ SubSeq(reactionLog', 1, Len(reactionLog)) = reactionLog
    /\ reactionLog'[Len(reactionLog')].kind \in kinds

\* C23: a bond-formation attempt (ionic or covalent) that declines leaves
\* everything as it was: the atoms (bond lists, electron lists, charges,
\* effectiveValence), the reaction log, bondFormedCount and totalBondE; an
\* attempt that succeeds appends exactly one log entry and adds exactly 1 to
\* bondFormedCount; each bond break appends exactly one entry and adds exactly
\* 1 to bondBrokenCount; a bond that is kept changes nothing.
C23_AttemptsFramed ==
    [][/\ (PairAttempted /\ ~PairBonds) => EngineUnchanged
       /\ (PairAttempted /\ PairBonds /\ pc' # "crashed") =>
            /\ OneEntry({"ionic bond", "covalent bond"})
            /\ bondFormedCount' = bondFormedCount + 1
            /\ bondBrokenCount' = bondBrokenCount
            /\ HasBondTo(atoms'[scanI + 1], scanK)
       /\ (pc = "form" /\ ~PairAttempted) => EngineUnchanged
       /\ BondGivenUp =>
            /\ OneEntry({"bond broken"})
            /\ bondBrokenCount' = bondBrokenCount + 1
            /\ bondFormedCount' = bondFormedCount
            /\ Len(atoms'[scanI + 1].bonds) = Len(atoms[scanI + 1].bonds) - 1
       /\ (pc = "break" /\ ~BondGivenUp) => EngineUnchanged]_vars

\* a pass of a step is over in which a bond was broken, a bond was formed
\* and an attempt on a pair in range has declined
C23_Witness ==
    /\ pc = "finish" /\ caller = "step"
    /\ spawned = Len(atoms)
    /\ bondBrokenCount >= 1
    /\ bondFormedCount - bondBrokenCount # oldCount
    /\ Len(reactionLog) = bondFormedCount + bondBrokenCount
    /\ \E i, j \in AtomIdx :
          /\ i < j /\ ~FormSkips(atoms, i, j)
          /\ IF RoutesIonic(atoms, i, j)
             THEN IonicDeclines(atoms, i, j, temperature)
             ELSE CovalentDeclines(atoms, i, j, temperature)

\* ---------------------------------------------------------------------- C24
\* the atomic numbers the configurations are built for
MaxZ == 40

\* one atom as Atom::init(Z) leaves it
ShellInit ==
    /\ \E Z \in 1..MaxZ : atoms = <<NewAtom(Z, Origin, Zero3)>>
    /\ molecules = <<>>
    /\ temperature = 300
    /\ reactionLog = <<>>
    /\ engSimTime = 0
    /\ simTime = 0
    /\ stepCount = 0
    /\ bondFormedCount = 0
    /\ bondBrokenCount = 0
    /\ totalBondE = 0
    /\ pc = "idle"
    /\ caller = "none"
    /\ scanI = 0
    /\ scanK = 0
    /\ oldCount = 0
    /\ curDt = 0
    /\ spawned = 1

\* Atom::removeOuterElectron applied to the atom
RemoveOuter ==
    /\ atoms[1].electrons # <<>>
    /\ atoms' = <<removeOuterElectron(atoms[1])>>
    /\ UNCHANGED <<molecules, temperature, reactionLog, engSimTime, simTime,
                   stepCount, bondFormedCount, bondBrokenCount, totalBondE,
                   pc, caller, scanI, scanK, oldCount, curDt, spawned>>

ShellNext == RemoveOuter
ShellSpec == ShellInit /\ [][ShellNext]_vars

\* C24: the last electron of the configuration fillElectronShells(Z) builds,
\* and of every configuration removeOuterElectron leaves, is an outermost
\* one: its principal quantum number is outermostShell of the configuration,
\* so the electron removeOuterElectron pops is of the outermost occupied
\* shell.
C24_LastIsOutermost ==
    \A i \in AtomIdx :
       atoms[i + 1].electrons # <<>> =>
         atoms[i + 1].electrons[Len(atoms[i + 1].electrons)].n
            = outermostShell(atoms[i + 1].electrons)

\* ---------------------------------------------------------------------- C25
\* C25: after every refresh of the molecule tracker, the moleculeId of each
\* atom is the id of the molecule whose atomIndices holds the atom's index.
C25_MoleculeIdFollows ==
    [][TrackerRuns =>
         \A i \in 0..(Len(atoms') - 1) :
            \A kp \in PlacesOf(molecules', i) :
               atoms'[i + 1].moleculeId = molecules'[kp[1]].id]_vars

\* ---------------------------------------------------------------------- C26
\* C26: every reaction-log entry carries the simulation time at which its
\* bond event happened: an entry appended during a step or a spawn has the
\* time Simulation::simTime has at that moment, so the times of one log are
\* non-decreasing in log order.
C26_LogTimes ==
    [][/\ Len(reactionLog') = Len(reactionLog) + 1 =>
            reactionLog'[Len(reactionLog')].time = simTime
       /\ \A k \in 1..(Len(reactionLog') - 1) :
            reactionLog'[k].time <= reactionLog'[k + 1].time]_vars

\* ---------------------------------------------------------------------- C27
\* the partners the bond entries of atom a name
Partners(a) == {a.bonds[k].otherAtomIdx : k \in 1..Len(a.bonds)}

\* C27: in every state the bond lists describe a simple graph over valid
\* indices: every entry's otherAtomIdx is in 0..n-1 and is not the index of
\* the atom that holds it, and no atom holds two entries to the same partner;
\* a step that adds an atom appends it, so the atoms already there keep
\* their indices.
C27_SimpleGraph ==
    [][/\ \A i \in 0..(Len(atoms') - 1) :
            /\ Partners(atoms'[i + 1]) \subseteq 0..(Len(atoms') - 1)
            /\ i \notin Partners(atoms'[i + 1])
            /\ Cardinality(Partners(atoms'[i + 1])) = Len(atoms'[i + 1].bonds)
       /\ Len(atoms') > Len(atoms) =>
            /\ Len(atoms') = Len(atoms) + 1
            /\ SubSeq(atoms', 1, Len(atoms)) = atoms
       /\ (Len(atoms') = Len(atoms) /\ atoms # <<>>) =>
            \A k \in 1..Len(atoms) :
               /\ atoms'[k].elementZ = atoms[k].elementZ
               /\ atoms'[k].mass = atoms[k].mass]_vars

\* three atoms spawned one after the other, the first bonded to both of the
\* others after a bond has been broken and bonds formed again
C27_Witness ==
    /\ pc = "idle" /\ Len(atoms) = 3 /\ spawned = 3
    /\ Partners(atoms[1]) = {1, 2}
    /\ Len(atoms[1].bonds) = 2
    /\ bondBrokenCount >= 1 /\ bondFormedCount >= 3

\* ---------------------------------------------------------------------- C28
\* C28: in every state no atom is over-bonded: the orders of all of its
\* bonds, ionic and covalent together, sum to at most its element's
\* valence-electron count, and its charge (the electrons it has given away)
\* is at most that count.
C28_NotOverBonded ==
    \A i \in AtomIdx :
       /\ SumOrders(atoms[i + 1].bonds) <= Element(atoms[i + 1].elementZ).valenceElectrons
       /\ atoms[i + 1].charge <= Element(atoms[i + 1].elementZ).valenceElectrons

\* ---------------------------------------------------------------------- C29
\* the unordered pairs of atoms joined by a bond entry
BondedPairs ==
    {p \in SUBSET AtomIdx :
       /\ Cardinality(p) = 2
       /\ \E i \in p : \E j \in p : i # j /\ j \in Partners(atoms[i + 1])}

\* C29: after any sequence of spawnAtom, step and clear (whenever no call is
\* running) the net counter bondFormedCount - bondBrokenCount equals the
\* number of distinct bonds present in the collection.
C29_NetCountIsBonds ==
    pc = "idle" => bondFormedCount - bondBrokenCount = Cardinality(BondedPairs)

\* ---------------------------------------------------------------------- C30
\* C30: electrons are conserved by the bonding state machine: no step of a
\* bonding pass changes the number of electrons summed over all atoms, and
\* every atom's charge is its atomic number minus the number of its
\* electrons, so the charges of atoms spawned from known elements sum to 0 in
\* every state.
C30_ElectronsConserved ==
    [][/\ pc \in {"break", "form"} =>
            SumSeq([k \in 1..Len(atoms') |-> Len(atoms'[k].electrons)])
               = SumSeq([k \in 1..Len(atoms) |-> Len(atoms[k].electrons)])
       /\ SumSeq([k \in 1..Len(atoms') |-> atoms'[k].charge]) = 0
       /\ SumSeq([k \in 1..Len(atoms') |-> Len(atoms'[k].electrons)])
            = SumSeq([k \in 1..Len(atoms') |-> atoms'[k].elementZ])]_vars

====
